---- MODULE Spec2Model ----
(***************************************************************************)
(* A model of the tooltrain / commander engine's reactive data streams,    *)
(* the stream registry (DataStreamStorage), input binding and the guest    *)
(* change-stream cursors.                                                  *)
(*                                                                         *)
(* Seventeen specifications share the module's variables:                    *)
(*   Spec         the two registries of a run (inputs, outputs), their     *)
(*                Value/List streams, binding and the guest cursors;       *)
(*   SpecStorage  the registries alone: entries added, removed and bound;  *)
(*   SpecList     one ListStream with one subscriber;                      *)
(*   SpecTree     one TreeStream;                                          *)
(*   SpecRun      StreamingRunBuilder::new on the schema of a program;     *)
(*   SpecRequests page requests and the producer's request streams;        *)
(*   SpecProject  the events of a stream as a cursor returns them;         *)
(*   SpecDestroy  a cursor when its stream is destroyed;                   *)
(*   SpecCursor   a cursor of an input polled across binds of the input;   *)
(*   SpecRebind   an input bound to one output and then to another;        *)
(*   SpecOutlive  the registries while the guest runs and after it stops;  *)
(*   SpecLock     the registry and stream locks the calls take and hold;    *)
(*   SpecSnapshot the snapshot stream of a ref made while the list changes; *)
(*   SpecHandles  the request streams' storage: taken, polled, dropped;     *)
(*   SpecStart    the builder's arguments configured and the run started;  *)
(*   SpecResult   the run's task and get_result on the handle's clones;    *)
(*   SpecData     the type algebra: type strings, the parser, the codec.   *)
(***************************************************************************)
EXTENDS Integers, Sequences, FiniteSets, TLC

\* ------------------------------------------------------------------ bounds
\* Streams ever created (registry specification).
MaxStreams == 2
\* Events ever broadcast on stream update channels (registry specification).
MaxEvents == 3
\* Entries alive at once in the inputs registry, and in the outputs registry.
MaxEntries == 2
MaxOutputs == 1
\* Calls of change_data_stream.
MaxBinds == 1
\* Where an input is bound again: the binds made, the outputs and the streams.
MaxRebinds == 2
MaxRebindOutputs == 2
MaxRebindStreams == 3
\* Inputs are added while fewer than MaxRegEvents changes were sent on the
\* inputs registry's broadcast.
MaxRegEvents == 2
\* Ids one registry hands out are below MaxIds.
MaxIds == 2
\* Registry-change receivers and guest cursors ever taken.
MaxRegSubs == 1
MaxCursors == 1
\* Polls answered by one cursor.
MaxPolls == 3
\* The broadcast rings hold RingCap events (the code's channel(128), scaled).
RingCap == 2
\* ListStream specification: operations applied to the stream.
MaxListOps == 4
\* TreeStream specification: operations applied to the tree.
MaxTreeOps == 3
\* Run builder specification: arguments of a schema.
MaxArgs == 3
\* Run handle specification: the handle and its clones, and the calls of
\* get_result on each.
MaxHandles == 3
MaxCalls == 2
\* Starting a run: inputs configured on the builder before start.
MaxConfigured == 2
\* Type algebra specification: lists within lists, elements of a list value.
MaxNesting == 2
MaxElems == 2
\* Receivers ever taken of a stream's request back-channel (page requests,
\* load-children requests).
MaxRequestRx == 1
\* Request stream specification: request streams taken of one output.
\* Calls each task makes (registry lock specification).
MaxLockCalls == 2
\* Request streams ever taken (request stream storage specification).
MaxRequestCalls == 3
MaxRequestStreams == 2

\* ------------------------------------------------------------------ values
\* Declared types (type strings) and the values well formed against them.
DataTypes == {"string", "list<string>"}

Values == {[t |-> "string", v |-> "x"], [t |-> "list<string>", v |-> "[x]"]}

ValuesOf(dt) == {val \in Values : val.t = dt}

NoValue == [t |-> "none", v |-> ""]

BoolValue(b) == [t |-> "bool", v |-> IF b THEN "true" ELSE "false"]

\* CommanderDataType::encode: the value's variant must be the type's
\* (try_into fails otherwise); the blob carries the wire kind and the payload.
Encode(dt, val) ==
    IF val.t = dt
    THEN [ok |-> TRUE, bytes |-> [wire |-> dt, payload |-> val.v]]
    ELSE [ok |-> FALSE, bytes |-> [wire |-> "error", payload |-> ""]]

\* ------------------------------------------------- tokio broadcast channel
\* A channel is the sequence of everything sent on it; a receiver is a
\* position in it.  The ring keeps the last RingCap items: a receiver whose
\* position was overwritten gets Lagged and is moved to the oldest kept item.
RxLagged(log, pos) == Len(log) - pos + 1 > RingCap

RxOldest(log) == IF Len(log) > RingCap THEN Len(log) - RingCap + 1 ELSE 1

\* Receiver::recv / try_recv: what the next call returns, and the new position.
RxNext(log, pos, senderAlive) ==
    IF RxLagged(log, pos)
    THEN [res |-> "Lagged", item |-> [op |-> "none", v |-> NoValue], pos |-> RxOldest(log)]
    ELSE IF pos <= Len(log)
    THEN [res |-> "Item", item |-> log[pos], pos |-> pos + 1]
    ELSE IF senderAlive
    THEN [res |-> "Empty", item |-> [op |-> "none", v |-> NoValue], pos |-> pos]
    ELSE [res |-> "Closed", item |-> [op |-> "none", v |-> NoValue], pos |-> pos]

\* broadcast::Sender::send: with no receiver the value is not stored and the
\* call returns Err.
Send(log, receivers, item) ==
    IF receivers = 0
    THEN [ok |-> FALSE, log |-> log]
    ELSE [ok |-> TRUE, log |-> Append(log, item)]

\* ---------------------------------------------------------------- streams
Event(op, val) == [op |-> op, v |-> val]

\* ListStream::new
ListStream_new ==
    [kind |-> "List", value |-> <<>>, has_more_rows |-> FALSE,
     updates |-> <<>>, page_load |-> <<>>, page_receivers |-> 0]

\* ValueStream::new(initial): value is <<>> (None) or <<v>> (Some(v))
ValueStream_new(initial) ==
    [kind |-> "Value", value |-> initial, has_more_rows |-> FALSE,
     updates |-> <<>>, page_load |-> <<>>, page_receivers |-> 0]

\* ListStream::snapshot / ValueStream::snapshot
Snapshot(s) == s.value

\* A ListStream::add that puts the new element first (what C8 must rule out).
ListStream_add_first(s, val) ==
    [s EXCEPT !.value = <<val>> \o @,
              !.updates = Append(@, Event("Add", val))]

\* ListStream::add
ListStream_add(s, val) ==
    [s EXCEPT !.value = Append(@, val),
              !.updates = Append(@, Event("Add", val))]

\* A ListStream::pop that takes the first element (what C13 must rule out).
ListStream_pop_first(s) ==
    IF s.value # <<>>
    THEN [ok |-> TRUE,
          s |-> [s EXCEPT !.value = Tail(@),
                          !.updates = Append(@, Event("Pop", Head(s.value)))]]
    ELSE [ok |-> FALSE, s |-> s]

\* ListStream::pop: Err on an empty list
ListStream_pop(s) ==
    IF s.value # <<>>
    THEN [ok |-> TRUE,
          s |-> [s EXCEPT !.value = SubSeq(@, 1, Len(@) - 1),
                          !.updates = Append(@, Event("Pop", s.value[Len(s.value)]))]]
    ELSE [ok |-> FALSE, s |-> s]

\* A ListStream::clear that empties the list and tells no subscriber (what
\* C27 must rule out).
ListStream_clear_unannounced(s) ==
    [s EXCEPT !.value = <<>>]

\* ListStream::clear
ListStream_clear(s) ==
    [s EXCEPT !.value = <<>>, !.updates = Append(@, Event("Clear", NoValue))]

\* ListStream::set_has_more_rows
ListStream_set_has_more_rows(s, b) ==
    [s EXCEPT !.has_more_rows = b,
              !.updates = Append(@, Event("HasMorePages", BoolValue(b)))]

\* ListStream::request_page: Ok(false) while has_more_rows is false; otherwise
\* page_load_sender.send(limit)? and Ok(true).
ListStream_request_page(s, limit) ==
    IF ~s.has_more_rows
    THEN [res |-> "false", s |-> s]
    ELSE LET sent == Send(s.page_load, s.page_receivers, limit) IN
         IF sent.ok
         THEN [res |-> "true", s |-> [s EXCEPT !.page_load = sent.log]]
         ELSE [res |-> "err", s |-> s]

\* ListStream::get_page_request_stream: one more receiver of the page-request
\* channel.
ListStream_get_page_request_stream(s) ==
    [s EXCEPT !.page_receivers = @ + 1]

\* ValueStream::set
ValueStream_set(s, val) ==
    [s EXCEPT !.value = <<val>>, !.updates = Append(@, Event("Set", val))]

\* DataStream::destroy (ListStream::destroy, ValueStream::destroy)
DataStream_destroy(s) ==
    [s EXCEPT !.value = <<>>, !.updates = Append(@, Event("Destroy", NoValue))]

\* --------------------------------------------------------------- variables
VARIABLES
    \* registry specification
    streams,    \* the heap of DataStreams: stream id -> stream
    inputs,     \* WasmStorage.inputs  (DataStreamStorage)
    outputs,    \* WasmStorage.outputs (DataStreamStorage)
    regSubs,    \* receivers of a registry's changes (DataStreamStorage::changes)
    cursors,    \* InputStreams.list_streams / value_streams
    ret,        \* what the last call returned
    nbinds,     \* calls of change_data_stream so far
    bound,      \* history: input id -> the output it was last bound to
    issued,     \* history: the highest id each registry's add has returned
    \* ListStream specification
    ls,         \* the ListStream
    lrx,        \* its subscriber
    lhist,      \* the mutator calls made so far
    lret,       \* what the last call returned
    lreq,       \* the request streams the guest took of the list output
    \* TreeStream specification
    ts,         \* the TreeStream
    thist,      \* the number of calls made so far
    tret,       \* what the last call returned
    \* run builder specification
    program,    \* the CommanderStreamingProgram: its schema, whether it loads
    builder,    \* what StreamingRunBuilder::new returned
    run,        \* what StreamingRunBuilder::start returned
    \* type algebra and codec specification
    dtype,      \* a CommanderDataType
    dvalue,     \* a CommanderValue well formed against it
    dout,       \* what the last call on them returned
    \* run handle specification
    guest,          \* the task spawned for the guest's run
    result_channel, \* the watch channel of the result
    handles,        \* the CommanderStreamingProgramRun and its clones
    \* registry lock specification
    locks,      \* the RwLock of each registry and of the stream
    tasks,      \* where the guest task and the host thread are in their calls
    \* snapshot stream specification
    vstream,    \* the stream values_stream returned, and what it has yielded
    \* request stream storage specification
    request_streams,  \* WasmStorage.output_request_streams
    rsret             \* what the last call on them returned

regVars == <<streams, inputs, outputs, regSubs, cursors, ret, nbinds, bound, issued>>
listVars == <<ls, lrx, lhist, lret, lreq>>
treeVars == <<ts, thist, tret>>
runVars == <<program, builder, run>>
dataVars == <<dtype, dvalue, dout>>
resultVars == <<guest, result_channel, handles>>
lockVars == <<locks, tasks>>
snapVars == <<vstream>>
requestVars == <<request_streams, rsret>>
vars == <<regVars, listVars, treeVars, runVars, dataVars, resultVars, lockVars, snapVars, requestVars>>

\* ======================================================= ListStream (SpecList)
\* A host subscription made with make_broadcast_stream: BroadcastStream with
\* map_while(Result::ok), so a Lagged error ends the stream.
NoSub == [subscribed |-> FALSE, pos |-> 1, at |-> 0, got |-> <<>>, ended |-> FALSE]

InitListVars ==
    /\ ls = ListStream_new
    /\ lrx = NoSub
    /\ lhist = <<>>
    /\ lret = [op |-> "new", ok |-> TRUE, res |-> ""]
    /\ lreq = <<>>

LAdd(val) ==
    /\ Len(lhist) < MaxListOps
    /\ ls' = ListStream_add(ls, val)
    /\ lhist' = Append(lhist, [op |-> "add", v |-> val])
    /\ lret' = [op |-> "add", ok |-> TRUE, res |-> ""]
    /\ UNCHANGED lrx

LPop ==
    /\ Len(lhist) < MaxListOps
    /\ ls' = ListStream_pop(ls).s
    /\ lhist' = Append(lhist, [op |-> "pop", v |-> NoValue])
    /\ lret' = [op |-> "pop", ok |-> ListStream_pop(ls).ok, res |-> ""]
    /\ UNCHANGED lrx

LClear ==
    /\ Len(lhist) < MaxListOps
    /\ ls' = ListStream_clear(ls)
    /\ lhist' = Append(lhist, [op |-> "clear", v |-> NoValue])
    /\ lret' = [op |-> "clear", ok |-> TRUE, res |-> ""]
    /\ UNCHANGED lrx

LSetHasMoreRows(b) ==
    /\ Len(lhist) < MaxListOps
    /\ ls' = ListStream_set_has_more_rows(ls, b)
    /\ lhist' = Append(lhist, [op |-> "set_has_more_rows", v |-> BoolValue(b)])
    /\ lret' = [op |-> "set_has_more_rows", ok |-> TRUE, res |-> ""]
    /\ UNCHANGED lrx

\* The limits page requests are made with.
PageLimits == {1, 50}

\* ListOutputRef::load_more(limit): ListStream::request_page on the stream.
LRequestPage(limit) ==
    /\ Len(lhist) < MaxListOps
    /\ ls' = ListStream_request_page(ls, limit).s
    /\ lhist' = Append(lhist, [op |-> "request_page", v |-> NoValue])
    /\ lret' = [op |-> "request_page", ok |-> ListStream_request_page(ls, limit).res # "err",
                res |-> ListStream_request_page(ls, limit).res, limit |-> limit]
    /\ UNCHANGED lrx

\* HostListOutput::get_request_stream: the guest takes the stream of page
\* requests.
LGetPageRequestStream ==
    /\ ls.page_receivers < MaxRequestRx
    /\ ls' = ListStream_get_page_request_stream(ls)
    /\ lret' = [op |-> "get_page_request_stream", ok |-> TRUE, res |-> ""]
    /\ UNCHANGED <<lrx, lhist>>

\* ListStream::subscribe: a receiver positioned after everything sent so far
ListStream_subscribe(s) == Len(s.updates) + 1

LSubscribe ==
    /\ ~lrx.subscribed
    /\ lrx' = [NoSub EXCEPT !.subscribed = TRUE,
                            !.pos = ListStream_subscribe(ls),
                            !.at = Len(lhist)]
    /\ lret' = [op |-> "subscribe", ok |-> TRUE, res |-> ""]
    /\ UNCHANGED <<ls, lhist>>

\* make_broadcast_stream(..).next(): an item, or the end of the stream on
\* Lagged / Closed; not enabled while the receiver would wait.
SubNext(log, sub, senderAlive) ==
    LET n == RxNext(log, sub.pos, senderAlive) IN
    IF n.res = "Item"
    THEN [sub EXCEPT !.pos = n.pos, !.got = Append(@, n.item)]
    ELSE [sub EXCEPT !.pos = n.pos, !.ended = TRUE]

LRecv ==
    /\ lrx.subscribed /\ ~lrx.ended
    /\ RxNext(ls.updates, lrx.pos, TRUE).res # "Empty"
    /\ lrx' = SubNext(ls.updates, lrx, TRUE)
    /\ lret' = [op |-> "recv", ok |-> ~lrx'.ended, res |-> ""]
    /\ UNCHANGED <<ls, lhist>>

NextList ==
    /\ \/ \E val \in Values : LAdd(val)
       \/ LPop
       \/ LClear
       \/ \E b \in BOOLEAN : LSetHasMoreRows(b)
       \/ LSubscribe
       \/ LRecv
       \/ \E limit \in PageLimits : LRequestPage(limit)
       \/ LGetPageRequestStream
    /\ UNCHANGED <<lreq, regVars, treeVars, runVars, dataVars, resultVars, lockVars, snapVars, requestVars>>

\* --------------------------------------- request streams (SpecRequests)
\* ListOutputRequest
LoadMore(count, n) == [req |-> "LoadMore", count |-> count, n |-> n]
Close == [req |-> "Close", count |-> 0, n |-> 0]

\* HostListOutput::get_request_stream: a receiver of the page requests,
\* mapped to ListOutputRequest, kept in list_request_streams.
\* History: got (the requests returned, each with its place n among the
\* requests sent) and lost (the places the receiver was moved past on Lagged).
GetRequestStream ==
    /\ Len(lreq) < MaxRequestStreams
    /\ ls' = ListStream_get_page_request_stream(ls)
    /\ lreq' = Append(lreq, [pos |-> Len(ls.page_load) + 1, got |-> <<>>, lost |-> {}])
    /\ lret' = [op |-> "get_request_stream", ok |-> TRUE, res |-> ""]
    /\ UNCHANGED <<lrx, lhist>>

\* OutputRequestStream::poll_request: the next item of the stream if it is
\* ready - LoadMore(count) for a request, Close for Lagged - or None.
PollRequest(k) ==
    /\ k \in 1..Len(lreq)
    /\ Len(lreq[k].got) < MaxPolls
    /\ LET n == RxNext(ls.page_load, lreq[k].pos, TRUE) IN
       /\ lreq' = [lreq EXCEPT ![k] =
                      IF n.res = "Item"
                      THEN [@ EXCEPT !.pos = n.pos,
                                     !.got = Append(@, LoadMore(n.item, lreq[k].pos))]
                      ELSE IF n.res = "Lagged"
                      THEN [@ EXCEPT !.pos = n.pos, !.got = Append(@, Close),
                                     !.lost = @ \cup (lreq[k].pos..(n.pos - 1))]
                      ELSE @]
       /\ lret' = [op |-> "poll_request", ok |-> TRUE,
                   res |-> IF n.res = "Empty" THEN "none" ELSE "some"]
    /\ UNCHANGED <<ls, lrx, lhist>>

\* The consumer asks for pages while the producer takes and polls its request
\* streams.
NextRequests ==
    /\ \/ (\E b \in BOOLEAN : LSetHasMoreRows(b)) /\ UNCHANGED lreq
       \/ (\E limit \in PageLimits : LRequestPage(limit)) /\ UNCHANGED lreq
       \/ GetRequestStream
       \/ \E k \in 1..MaxRequestStreams : PollRequest(k)
    /\ UNCHANGED <<regVars, treeVars, runVars, dataVars, resultVars, lockVars, snapVars, requestVars>>

\* ======================================================= TreeStream (SpecTree)
NodeIds == {"a", "b", "c"}

\* The key of edges for Option::None (the forest's roots).
NoParent == "#none"

\* TreeNode values: the id and a payload.
TreeNodes == {[id |-> i, value |-> "p"] : i \in NodeIds}

\* The children of one add call: one or two nodes.
ChildLists == {<<n>> : n \in TreeNodes} \cup {<<n, m>> : n \in TreeNodes, m \in TreeNodes}

TreeEvent(op, parent, children) == [op |-> op, parent |-> parent, children |-> children]

\* TreeStream::new. nodes: HashMap<String, Arc<TreeNode>>, edges:
\* HashMap<Option<String>, Vec<String>>, both as functions on the keys present.
TreeStream_new ==
    [nodes |-> [i \in {} |-> [id |-> "", value |-> ""]],
     edges |-> [k \in {} |-> <<>>],
     updates |-> <<>>,
     load_children |-> <<>>,
     load_receivers |-> 0]

\* HashMap::extend / insert: later entries replace earlier ones.
RECURSIVE ExtendNodes(_, _)
ExtendNodes(nodes, children) ==
    IF children = <<>> THEN nodes
    ELSE LET n == Head(children) IN
         ExtendNodes([i \in DOMAIN nodes \cup {n.id} |-> IF i = n.id THEN n ELSE nodes[i]],
                     Tail(children))

ChildIds(children) == [i \in 1..Len(children) |-> children[i].id]

\* A TreeStream::add without the check of the parent (what C12 must rule out).
TreeStream_add_orphan(t, parent, children) ==
    [ok |-> TRUE,
     t |-> [t EXCEPT
              !.nodes = ExtendNodes(@, children),
              !.edges = [k \in DOMAIN @ \cup {parent} |->
                            IF k = parent
                            THEN (IF parent \in DOMAIN @ THEN @[parent] ELSE <<>>)
                                 \o ChildIds(children)
                            ELSE @[k]],
              !.updates = Append(@, TreeEvent("Add", parent, children))]]

\* TreeStream::add
TreeStream_add(t, parent, children) ==
    IF parent # NoParent /\ parent \notin DOMAIN t.nodes
    THEN [ok |-> FALSE, t |-> t]
    ELSE [ok |-> TRUE,
          t |-> [t EXCEPT
                   !.nodes = ExtendNodes(@, children),
                   !.edges = [k \in DOMAIN @ \cup {parent} |->
                                 IF k = parent
                                 THEN (IF parent \in DOMAIN @ THEN @[parent] ELSE <<>>)
                                      \o ChildIds(children)
                                 ELSE @[k]],
                   !.updates = Append(@, TreeEvent("Add", parent, children))]]

\* TreeStream::remove: the node leaves the map, then the edges recorded under
\* it are taken out and each child removed in turn (the first error returns,
\* with what was removed so far staying removed), then Remove(node) is sent.
RECURSIVE TreeStream_remove(_, _)
RECURSIVE RemoveChildren(_, _)
RemoveChildren(t, ids) ==
    IF ids = <<>> THEN [ok |-> TRUE, t |-> t]
    ELSE LET r == TreeStream_remove(t, Head(ids)) IN
         IF r.ok THEN RemoveChildren(r.t, Tail(ids)) ELSE r

TreeStream_remove(t, id) ==
    IF id \notin DOMAIN t.nodes
    THEN [ok |-> FALSE, t |-> t]
    ELSE LET node == t.nodes[id]
             t1 == [t EXCEPT !.nodes = [i \in DOMAIN @ \ {id} |-> @[i]]]
             t2 == [t1 EXCEPT !.edges = [k \in DOMAIN @ \ {id} |-> @[k]]]
             r == IF id \in DOMAIN t1.edges
                  THEN RemoveChildren(t2, t1.edges[id])
                  ELSE [ok |-> TRUE, t |-> t1]
         IN IF r.ok
            THEN [ok |-> TRUE,
                  t |-> [r.t EXCEPT !.updates = Append(@, TreeEvent("Remove", NoParent, <<node>>))]]
            ELSE r

\* TreeStream::clear
TreeStream_clear(t) ==
    [t EXCEPT !.nodes = [i \in {} |-> [id |-> "", value |-> ""]],
              !.edges = [k \in {} |-> <<>>],
              !.updates = Append(@, TreeEvent("Clear", NoParent, <<>>))]

\* TreeStream::subtree / snapshot.  The forest is returned in pre-order, each
\* node with the parent it hangs under.  st is "ok", "panic" (nodes.get(id)
\* .unwrap() on an id that is in no map) or "overflow" (subtree re-enters a
\* node it is already expanding, and never returns).
RECURSIVE Subtree(_, _, _)
RECURSIVE SubtreeOf(_, _, _, _)
SubtreeOf(t, root, ids, path) ==
    IF ids = <<>> THEN [st |-> "ok", seq |-> <<>>]
    ELSE LET id == Head(ids) IN
         IF id \notin DOMAIN t.nodes THEN [st |-> "panic", seq |-> <<>>]
         ELSE IF id \in path THEN [st |-> "overflow", seq |-> <<>>]
         ELSE LET below == Subtree(t, id, path \cup {id}) IN
              IF below.st # "ok" THEN below
              ELSE LET rest == SubtreeOf(t, root, Tail(ids), path) IN
                   IF rest.st # "ok" THEN rest
                   ELSE [st |-> "ok",
                         seq |-> <<[id |-> id, parent |-> root]>> \o below.seq \o rest.seq]

Subtree(t, root, path) ==
    IF root \in DOMAIN t.edges
    THEN SubtreeOf(t, root, t.edges[root], path)
    ELSE [st |-> "ok", seq |-> <<>>]

TreeStream_snapshot(t) == Subtree(t, NoParent, {})

\* A TreeStream::request_children that asks for any id (what C15 must rule out).
TreeStream_request_children_any(t, parent) ==
    LET sent == Send(t.load_children, t.load_receivers, parent) IN
    IF sent.ok
    THEN [res |-> "true", t |-> [t EXCEPT !.load_children = sent.log]]
    ELSE [res |-> "err", t |-> t]

\* TreeStream::request_children: Ok(false) for an id that is not a node;
\* otherwise load_children_sender.send(parent)? and Ok(true).
TreeStream_request_children(t, parent) ==
    IF parent \notin DOMAIN t.nodes
    THEN [res |-> "false", t |-> t]
    ELSE LET sent == Send(t.load_children, t.load_receivers, parent) IN
         IF sent.ok
         THEN [res |-> "true", t |-> [t EXCEPT !.load_children = sent.log]]
         ELSE [res |-> "err", t |-> t]

\* TreeStream::get_request_children_stream: one more receiver of the
\* load-children channel.
TreeStream_get_request_children_stream(t) ==
    [t EXCEPT !.load_receivers = @ + 1]

InitTreeVars ==
    /\ ts = TreeStream_new
    /\ thist = 0
    /\ tret = [op |-> "new", ok |-> TRUE, id |-> "", before |-> [st |-> "ok", seq |-> <<>>],
               had |-> {}, children |-> <<>>, res |-> ""]

TAdd(parent, children) ==
    /\ thist < MaxTreeOps
    /\ ts' = TreeStream_add(ts, parent, children).t
    /\ thist' = thist + 1
    /\ tret' = [op |-> "add", ok |-> TreeStream_add(ts, parent, children).ok, id |-> parent,
                before |-> TreeStream_snapshot(ts), had |-> DOMAIN ts.nodes,
                children |-> ChildIds(children), res |-> ""]

TRemove(id) ==
    /\ thist < MaxTreeOps
    /\ ts' = TreeStream_remove(ts, id).t
    /\ thist' = thist + 1
    /\ tret' = [op |-> "remove", ok |-> TreeStream_remove(ts, id).ok, id |-> id,
                before |-> TreeStream_snapshot(ts), had |-> DOMAIN ts.nodes,
                children |-> <<>>, res |-> ""]

TClear ==
    /\ thist < MaxTreeOps
    /\ ts' = TreeStream_clear(ts)
    /\ thist' = thist + 1
    /\ tret' = [op |-> "clear", ok |-> TRUE, id |-> "",
                before |-> TreeStream_snapshot(ts), had |-> DOMAIN ts.nodes,
                children |-> <<>>, res |-> ""]

\* TreeStream::request_children(id), as a caller holding the stream makes it.
TRequestChildren(id) ==
    /\ thist < MaxTreeOps
    /\ ts' = TreeStream_request_children(ts, id).t
    /\ thist' = thist + 1
    /\ tret' = [op |-> "request_children",
                ok |-> TreeStream_request_children(ts, id).res # "err", id |-> id,
                before |-> TreeStream_snapshot(ts), had |-> DOMAIN ts.nodes,
                children |-> <<>>, res |-> TreeStream_request_children(ts, id).res]

\* A guest takes the stream of load-children requests.
TGetRequestChildrenStream ==
    /\ ts.load_receivers < MaxRequestRx
    /\ ts' = TreeStream_get_request_children_stream(ts)
    /\ tret' = [op |-> "get_request_children_stream", ok |-> TRUE, id |-> "",
                before |-> TreeStream_snapshot(ts), had |-> DOMAIN ts.nodes,
                children |-> <<>>, res |-> ""]
    /\ UNCHANGED thist

NextTree ==
    /\ \/ \E parent \in NodeIds \cup {NoParent}, children \in ChildLists : TAdd(parent, children)
       \/ \E id \in NodeIds : TRemove(id)
       \/ TClear
       \/ \E id \in NodeIds : TRequestChildren(id)
       \/ TGetRequestChildrenStream
    /\ UNCHANGED <<regVars, listVars, runVars, dataVars, resultVars, lockVars, snapVars, requestVars>>

\* ==================================================== the registries (Spec)
Names == {"arg"}

DataStreamMetadata(id, name, description, data_type, data_stream_type) ==
    [id |-> id, name |-> name, description |-> description,
     data_type |-> data_type, data_stream_type |-> data_stream_type]

NoMetadata == DataStreamMetadata(-1, "", "", "", "")

\* DataStreamResourceChange
Added(metadata) == [op |-> "Added", id |-> metadata.id, metadata |-> metadata]
Removed(id) == [op |-> "Removed", id |-> id, metadata |-> NoMetadata]
DataStreamChanged(id) == [op |-> "DataStreamChanged", id |-> id, metadata |-> NoMetadata]

\* DataStreamStorage::default. state: BTreeMap<ResourceId, DataStreamResource>;
\* changes: what was sent on the Sender; receivers: its receiver count.
DataStreamStorage_default ==
    [state |-> [i \in {} |-> [metadata |-> NoMetadata, stream |-> 0]],
     changes |-> <<>>,
     receivers |-> 0]

MaxKey(S) == CHOOSE m \in S : \A k \in S : k <= m

\* writer.state.last_key_value().map(|(k, _)| k + 1).unwrap_or(0)
NextIndex(reg) == IF DOMAIN reg.state = {} THEN 0 ELSE MaxKey(DOMAIN reg.state) + 1

\* DataStreamStorage::add
DataStreamStorage_add(reg, name, description, data_type, kind, stream) ==
    LET next_index == NextIndex(reg)
        metadata == DataStreamMetadata(next_index, name, description, data_type, kind)
    IN [id |-> next_index,
        reg |-> [reg EXCEPT
                   !.state = [i \in DOMAIN @ \cup {next_index} |->
                                 IF i = next_index
                                 THEN [metadata |-> metadata, stream |-> stream]
                                 ELSE @[i]],
                   !.changes = Send(@, reg.receivers, Added(metadata)).log]]

\* A DataStreamStorage::remove that announces the removal of an id it does
\* not hold (what C17 must rule out).
DataStreamStorage_remove_announced(reg, id) ==
    IF id \in DOMAIN reg.state
    THEN [found |-> TRUE,
          stream |-> reg.state[id].stream,
          reg |-> [reg EXCEPT
                     !.state = [i \in DOMAIN @ \ {id} |-> @[i]],
                     !.changes = Send(@, reg.receivers, Removed(id)).log]]
    ELSE [found |-> FALSE, stream |-> 0,
          reg |-> [reg EXCEPT !.changes = Send(@, reg.receivers, Removed(id)).log]]

\* DataStreamStorage::remove, but for the stream's teardown: found says whether
\* the id was there, stream which stream the entry held.
DataStreamStorage_remove(reg, id) ==
    IF id \in DOMAIN reg.state
    THEN [found |-> TRUE,
          stream |-> reg.state[id].stream,
          reg |-> [reg EXCEPT
                     !.state = [i \in DOMAIN @ \ {id} |-> @[i]],
                     !.changes = Send(@, reg.receivers, Removed(id)).log]]
    ELSE [found |-> FALSE, stream |-> 0, reg |-> reg]

\* A change_data_stream that announces the change and keeps the entry's stream
\* (what C1 must rule out).
DataStreamStorage_change_data_stream_kept(reg, id, new_stream) ==
    IF id \notin DOMAIN reg.state
    THEN [ok |-> FALSE, reg |-> reg]
    ELSE [ok |-> Send(reg.changes, reg.receivers, DataStreamChanged(id)).ok,
          reg |-> [reg EXCEPT
                     !.changes = Send(@, reg.receivers, DataStreamChanged(id)).log]]

\* A change_data_stream that also blanks the entry's name (what C5 must rule
\* out).
DataStreamStorage_change_data_stream_renamed(reg, id, new_stream) ==
    IF id \notin DOMAIN reg.state
    THEN [ok |-> FALSE, reg |-> reg]
    ELSE [ok |-> Send(reg.changes, reg.receivers, DataStreamChanged(id)).ok,
          reg |-> [reg EXCEPT
                     !.state[id].stream = new_stream,
                     !.state[id].metadata.name = "",
                     !.changes = Send(@, reg.receivers, DataStreamChanged(id)).log]]

\* A change_data_stream that announces the entry as added before the change
\* (what C6 must rule out).
DataStreamStorage_change_data_stream_added(reg, id, new_stream) ==
    IF id \notin DOMAIN reg.state
    THEN [ok |-> FALSE, reg |-> reg]
    ELSE [ok |-> Send(reg.changes, reg.receivers, DataStreamChanged(id)).ok,
          reg |-> [reg EXCEPT
                     !.state[id].stream = new_stream,
                     !.changes = Send(Send(@, reg.receivers, Added(reg.state[id].metadata)).log,
                                      reg.receivers, DataStreamChanged(id)).log]]

\* DataStreamStorage::change_data_stream: the entry's stream is replaced, then
\* the send's error (no receiver) is returned with `?`.
DataStreamStorage_change_data_stream(reg, id, new_stream) ==
    IF id \notin DOMAIN reg.state
    THEN [ok |-> FALSE, reg |-> reg]
    ELSE [ok |-> Send(reg.changes, reg.receivers, DataStreamChanged(id)).ok,
          reg |-> [reg EXCEPT
                     !.state[id].stream = new_stream,
                     !.changes = Send(@, reg.receivers, DataStreamChanged(id)).log]]

\* DataStreamStorage::changes: a new receiver, placed after what was sent
DataStreamStorage_changes(reg) ==
    [pos |-> Len(reg.changes) + 1, reg |-> [reg EXCEPT !.receivers = @ + 1]]

\* Arc<RwLock<DataStream>> strong count: the registry entries holding stream sid
Holders(ins, outs, sid) ==
    Cardinality({i \in DOMAIN ins.state : ins.state[i].stream = sid})
    + Cardinality({o \in DOMAIN outs.state : outs.state[o].stream = sid})

\* A stream's Sender lives as long as the stream does.
Alive(sid) == Holders(inputs, outputs, sid) > 0

EventsSent == LET RECURSIVE Sum(_)
                  Sum(n) == IF n = 0 THEN 0 ELSE Len(streams[n].updates) + Sum(n - 1)
              IN Sum(Len(streams))

\* What a cursor's poll returns: kind is the change's (Append, Pop, Replace for
\* a list; Value for a value cursor, items empty for None), "Err" with the
\* message, or "Panic".
PollResult(kind, items, msg) == [kind |-> kind, items |-> items, msg |-> msg]

NoPoll == PollResult("none", <<>>, "")

Ret(op, ok, reg, id, aux) ==
    [op |-> op, ok |-> ok, reg |-> reg, id |-> id, aux |-> aux, out |-> -1,
     val |-> NoPoll, pend |-> FALSE]

InitRegVars ==
    /\ streams = <<>>
    /\ inputs = DataStreamStorage_default
    /\ outputs = DataStreamStorage_default
    /\ regSubs = <<>>
    /\ cursors = <<>>
    /\ ret = Ret("new", TRUE, "", -1, -1)
    /\ nbinds = 0
    /\ bound = [i \in {} |-> [out |-> -1, serial |-> 0, at |-> 0, old |-> 0, was |-> 0]]
    /\ issued = [inputs |-> -1, outputs |-> -1]

NewStream(kind) == IF kind = "List" THEN ListStream_new ELSE ValueStream_new(<<>>)

Max(a, b) == IF a >= b THEN a ELSE b

\* StreamingPluginImports::add_value_input / add_list_input,
\* Inputs::new_value_input / new_list_input: a fresh stream, registered
AddInputWithin(kind, name, data_type, max_streams) ==
    /\ Len(streams) < max_streams
    /\ Cardinality(DOMAIN inputs.state) < MaxEntries
    /\ Len(inputs.changes) < MaxRegEvents
    /\ NextIndex(inputs) < MaxIds
    /\ LET r == DataStreamStorage_add(inputs, name, "about " \o name, data_type, kind,
                                      Len(streams) + 1)
       IN /\ inputs' = r.reg
          /\ ret' = Ret("add", TRUE, "inputs", r.id, issued.inputs)
          /\ issued' = [issued EXCEPT !.inputs = Max(@, r.id)]
    /\ streams' = Append(streams, NewStream(kind))
    /\ UNCHANGED <<outputs, regSubs, cursors, nbinds, bound>>

AddInput(kind, name, data_type) == AddInputWithin(kind, name, data_type, MaxStreams)

\* StreamingPluginImports::add_value_output / add_list_output
AddOutputWithin(kind, name, data_type, max_streams, max_outputs) ==
    /\ Len(streams) < max_streams
    /\ Cardinality(DOMAIN outputs.state) < max_outputs
    /\ NextIndex(outputs) < MaxIds
    /\ LET r == DataStreamStorage_add(outputs, name, "about " \o name, data_type, kind,
                                      Len(streams) + 1)
       IN /\ outputs' = r.reg
          /\ ret' = Ret("add", TRUE, "outputs", r.id, issued.outputs)
          /\ issued' = [issued EXCEPT !.outputs = Max(@, r.id)]
    /\ streams' = Append(streams, NewStream(kind))
    /\ UNCHANGED <<inputs, regSubs, cursors, nbinds, bound>>

AddOutput(kind, name, data_type) ==
    AddOutputWithin(kind, name, data_type, MaxStreams, MaxOutputs)

\* Inputs::bind_input: a new input entry holding the stream of output o
BindInput(name, data_type, o) ==
    /\ o \in DOMAIN outputs.state
    /\ Cardinality(DOMAIN inputs.state) < MaxEntries
    /\ Len(inputs.changes) < MaxRegEvents
    /\ NextIndex(inputs) < MaxIds
    /\ LET r == DataStreamStorage_add(inputs, name, "about " \o name, data_type,
                                      outputs.state[o].metadata.data_stream_type,
                                      outputs.state[o].stream)
       IN /\ inputs' = r.reg
          /\ ret' = Ret("add", TRUE, "inputs", r.id, issued.inputs)
          /\ issued' = [issued EXCEPT !.inputs = Max(@, r.id)]
    /\ UNCHANGED <<streams, outputs, regSubs, cursors, nbinds, bound>>

\* Arc::into_inner(stream) in DataStreamStorage::remove: the stream is
\* destroyed when the removed entry held its last reference.
DestroyIfUnique(ins, outs, r) ==
    IF r.found /\ Holders(ins, outs, r.stream) = 0
    THEN [streams EXCEPT ![r.stream] = DataStream_destroy(@)]
    ELSE streams

\* HostValueInput::drop / HostListInput::drop.  ret.ok is what drop returns
\* (an error for an id that is not there); ret.aux is what the registry's
\* remove returned: 1 for Ok(true), 0 for Ok(false).
RemoveInput(id) ==
    /\ LET r == DataStreamStorage_remove(inputs, id)
       IN /\ inputs' = r.reg
          /\ streams' = DestroyIfUnique(r.reg, outputs, r)
          /\ ret' = Ret("remove", r.found, "inputs", id, IF r.found THEN 1 ELSE 0)
    /\ bound' = [i \in DOMAIN bound \ {id} |-> bound[i]]
    /\ UNCHANGED <<outputs, regSubs, cursors, nbinds, issued>>

\* HostValueOutput::drop / HostListOutput::drop
RemoveOutput(id) ==
    /\ LET r == DataStreamStorage_remove(outputs, id)
       IN /\ outputs' = r.reg
          /\ streams' = DestroyIfUnique(inputs, r.reg, r)
          /\ ret' = Ret("remove", r.found, "outputs", id, IF r.found THEN 1 ELSE 0)
    /\ bound' = [i \in {j \in DOMAIN bound : bound[j].out # id} |-> bound[i]]
    /\ UNCHANGED <<inputs, regSubs, cursors, nbinds, issued>>

\* A bind that destroys the stream the input held before (what C33 must rule
\* out).
BindWithin_destroying(i, o, max_binds) ==
    /\ nbinds < max_binds
    /\ i \in DOMAIN inputs.state /\ o \in DOMAIN outputs.state
    /\ inputs.state[i].metadata.data_stream_type = outputs.state[o].metadata.data_stream_type
    /\ LET r == DataStreamStorage_change_data_stream(inputs, i, outputs.state[o].stream)
       IN /\ inputs' = r.reg
          /\ ret' = [Ret("bind", r.ok, "inputs", i, inputs.state[i].stream) EXCEPT !.out = o]
    /\ nbinds' = nbinds + 1
    /\ bound' = [j \in DOMAIN bound \cup {i} |->
                    IF j = i
                    THEN [out |-> o, serial |-> nbinds + 1,
                          at |-> Len(streams[outputs.state[o].stream].updates),
                          old |-> inputs.state[i].stream,
                          was |-> Len(streams[inputs.state[i].stream].updates)]
                    ELSE bound[j]]
    /\ streams' = [streams EXCEPT ![inputs.state[i].stream] = DataStream_destroy(@)]
    /\ UNCHANGED <<outputs, regSubs, cursors, issued>>

\* ValueInputRef::bind / ListInputRef::bind: the input handle and the output
\* ref are of one stream kind; from.inner_data_stream() is the output's stream.
\* ret.aux is the stream the input held before the call.  History: bound[i]
\* keeps the output, the bind's number, what had been sent on the output's
\* stream (at), the stream the input held before (old) and what had been sent
\* on that one (was).
BindWithin(i, o, max_binds) ==
    /\ nbinds < max_binds
    /\ i \in DOMAIN inputs.state /\ o \in DOMAIN outputs.state
    /\ inputs.state[i].metadata.data_stream_type = outputs.state[o].metadata.data_stream_type
    /\ LET r == DataStreamStorage_change_data_stream(inputs, i, outputs.state[o].stream)
       IN /\ inputs' = r.reg
          /\ ret' = [Ret("bind", r.ok, "inputs", i, inputs.state[i].stream) EXCEPT !.out = o]
    /\ nbinds' = nbinds + 1
    /\ bound' = [j \in DOMAIN bound \cup {i} |->
                    IF j = i
                    THEN [out |-> o, serial |-> nbinds + 1,
                          at |-> Len(streams[outputs.state[o].stream].updates),
                          old |-> inputs.state[i].stream,
                          was |-> Len(streams[inputs.state[i].stream].updates)]
                    ELSE bound[j]]
    /\ UNCHANGED <<streams, outputs, regSubs, cursors, issued>>

Bind(i, o) == BindWithin(i, o, MaxBinds)

\* ------------------------------------------------------ writes to the streams
IsKind(reg, id, kind) ==
    id \in DOMAIN reg.state /\ streams[reg.state[id].stream].kind = kind

\* HostListOutput::add: the bytes are decoded with the output's data type
OutListAdd(o, val) ==
    /\ EventsSent < MaxEvents
    /\ IsKind(outputs, o, "List")
    /\ val \in ValuesOf(outputs.state[o].metadata.data_type)
    /\ streams' = [streams EXCEPT ![outputs.state[o].stream] = ListStream_add(@, val)]
    /\ ret' = Ret("list_add", TRUE, "outputs", -1, -1)
    /\ UNCHANGED <<inputs, outputs, regSubs, cursors, nbinds, bound, issued>>

\* HostListOutput::pop
OutListPop(o) ==
    /\ EventsSent < MaxEvents
    /\ IsKind(outputs, o, "List")
    /\ streams' = [streams EXCEPT ![outputs.state[o].stream] = ListStream_pop(@).s]
    /\ ret' = Ret("list_pop", ListStream_pop(streams[outputs.state[o].stream]).ok,
                  "outputs", -1, -1)
    /\ UNCHANGED <<inputs, outputs, regSubs, cursors, nbinds, bound, issued>>

\* HostListOutput::clear
OutListClear(o) ==
    /\ EventsSent < MaxEvents
    /\ IsKind(outputs, o, "List")
    /\ streams' = [streams EXCEPT ![outputs.state[o].stream] = ListStream_clear(@)]
    /\ ret' = Ret("list_clear", TRUE, "outputs", -1, -1)
    /\ UNCHANGED <<inputs, outputs, regSubs, cursors, nbinds, bound, issued>>

\* HostListOutput::set_has_more_rows
OutListSetHasMoreRows(o, b) ==
    /\ EventsSent < MaxEvents
    /\ IsKind(outputs, o, "List")
    /\ streams' = [streams EXCEPT ![outputs.state[o].stream] =
                      ListStream_set_has_more_rows(@, b)]
    /\ ret' = Ret("list_set_has_more_rows", TRUE, "outputs", -1, -1)
    /\ UNCHANGED <<inputs, outputs, regSubs, cursors, nbinds, bound, issued>>

\* HostValueOutput::set: the bytes are decoded with the output's data type
OutValueSet(o, val) ==
    /\ EventsSent < MaxEvents
    /\ IsKind(outputs, o, "Value")
    /\ val \in ValuesOf(outputs.state[o].metadata.data_type)
    /\ streams' = [streams EXCEPT ![outputs.state[o].stream] = ValueStream_set(@, val)]
    /\ ret' = Ret("value_set", TRUE, "outputs", -1, -1)
    /\ UNCHANGED <<inputs, outputs, regSubs, cursors, nbinds, bound, issued>>

\* ListInputRef::add (the handle's ValueType may be the generic type, so any
\* value converts)
InListAdd(i, val) ==
    /\ EventsSent < MaxEvents
    /\ IsKind(inputs, i, "List")
    /\ streams' = [streams EXCEPT ![inputs.state[i].stream] = ListStream_add(@, val)]
    /\ ret' = Ret("list_add", TRUE, "inputs", -1, -1)
    /\ UNCHANGED <<inputs, outputs, regSubs, cursors, nbinds, bound, issued>>

\* ValueInputRef::set
InValueSet(i, val) ==
    /\ EventsSent < MaxEvents
    /\ IsKind(inputs, i, "Value")
    /\ streams' = [streams EXCEPT ![inputs.state[i].stream] = ValueStream_set(@, val)]
    /\ ret' = Ret("value_set", TRUE, "inputs", -1, -1)
    /\ UNCHANGED <<inputs, outputs, regSubs, cursors, nbinds, bound, issued>>

\* ------------------------------------------- receivers of registry changes
\* DataStreamStorage::changes on the inputs registry (Inputs::updates and the
\* cursors use it): got is what the receiver has yielded.
RegSubscribe ==
    /\ Len(regSubs) < MaxRegSubs
    /\ LET r == DataStreamStorage_changes(inputs)
       IN /\ inputs' = r.reg
          /\ regSubs' = Append(regSubs, [pos |-> r.pos, at |-> r.pos, got |-> <<>>,
                                         lagged |-> FALSE])
    /\ ret' = Ret("changes", TRUE, "inputs", -1, -1)
    /\ UNCHANGED <<streams, outputs, cursors, nbinds, bound, issued>>

\* Receiver::recv on a registry receiver
RegRecv(k) ==
    /\ k \in DOMAIN regSubs
    /\ LET n == RxNext(inputs.changes, regSubs[k].pos, TRUE)
       IN /\ n.res # "Empty"
          /\ regSubs' = [regSubs EXCEPT
                           ![k] = IF n.res = "Item"
                                  THEN [@ EXCEPT !.pos = n.pos, !.got = Append(@, n.item)]
                                  ELSE [@ EXCEPT !.pos = n.pos, !.lagged = TRUE]]
          /\ ret' = Ret("recv", n.res = "Item", "inputs", -1, -1)
    /\ UNCHANGED <<streams, inputs, outputs, cursors, nbinds, bound, issued>>

\* ----------------------------------------------------------- guest cursors
\* HostValueInput::get_change_stream / HostListInput::get_change_stream: the
\* InputChangeStream holds the input id, a receiver of the stream the entry
\* holds now (chan, pos) with the entry's data type captured for the
\* projection, and a receiver of the registry's changes (rpos).
\* History: at (the first position of the receiver), raw (the stream events
\* the receiver yielded), lagged, got (the results of the polls), serial (the
\* binds made before the cursor was taken), and for the last synthetic change
\* returned: markChan/mark/markIdx (the entry's stream, what had been sent on
\* it, and the polls answered by then).
GetChangeStream(i) ==
    /\ Len(cursors) < MaxCursors
    /\ i \in DOMAIN inputs.state
    /\ LET e == inputs.state[i]
           r == DataStreamStorage_changes(inputs)
       IN /\ inputs' = r.reg
          /\ cursors' = Append(cursors,
                 [input_id |-> i,
                  kind |-> streams[e.stream].kind,
                  data_type |-> e.metadata.data_type,
                  chan |-> e.stream,
                  pos |-> Len(streams[e.stream].updates) + 1,
                  rpos |-> r.pos,
                  dead |-> FALSE,
                  at |-> Len(streams[e.stream].updates) + 1,
                  raw |-> <<>>,
                  lagged |-> FALSE,
                  got |-> <<>>,
                  serial |-> nbinds,
                  markChan |-> 0, mark |-> 0, markIdx |-> 0])
    /\ ret' = Ret("get_change_stream", TRUE, "inputs", -1, -1)
    /\ UNCHANGED <<streams, outputs, regSubs, nbinds, bound, issued>>

\* The map / filter_map closure of get_change_stream on one stream event:
\* res is "Item" (val yielded), "Skip" (filtered out) or "Panic" (unwrap of a
\* failed encode, todo!()).
Project(kind, data_type, ev) ==
    IF kind = "List"
    THEN IF ev.op = "Add"
         THEN IF Encode(data_type, ev.v).ok
              THEN [res |-> "Item",
                    val |-> PollResult("Append", <<Encode(data_type, ev.v).bytes>>, "")]
              ELSE [res |-> "Panic", val |-> PollResult("Panic", <<>>, "unwrap")]
         ELSE IF ev.op = "Pop" THEN [res |-> "Item", val |-> PollResult("Pop", <<>>, "")]
         ELSE IF ev.op = "Clear" THEN [res |-> "Item", val |-> PollResult("Replace", <<>>, "")]
         ELSE [res |-> "Panic", val |-> PollResult("Panic", <<>>, "todo")]
    ELSE IF ev.op = "Set"
         THEN [res |-> "Item",
               val |-> PollResult("Value",
                                  IF Encode(data_type, ev.v).ok
                                  THEN <<Encode(data_type, ev.v).bytes>> ELSE <<>>, "")]
         ELSE [res |-> "Skip", val |-> NoPoll]

\* stream_changes.next(): BroadcastStream with filter_map(Result::ok), then the
\* projection.  res is "Item", "Panic", "Ended" (the sender is gone and nothing
\* is left) or "Pending"; pos, raw and lagged are the receiver's afterwards.
RECURSIVE StreamChangesNext(_, _, _, _, _, _, _)
StreamChangesNext(log, pos, senderAlive, kind, data_type, raw, lagged) ==
    LET n == RxNext(log, pos, senderAlive) IN
    IF n.res = "Lagged"
    THEN StreamChangesNext(log, n.pos, senderAlive, kind, data_type, raw, TRUE)
    ELSE IF n.res = "Empty"
    THEN [res |-> "Pending", val |-> NoPoll, pos |-> n.pos, raw |-> raw, lagged |-> lagged]
    ELSE IF n.res = "Closed"
    THEN [res |-> "Ended", val |-> NoPoll, pos |-> n.pos, raw |-> raw, lagged |-> lagged]
    ELSE LET p == Project(kind, data_type, n.item) IN
         IF p.res = "Skip"
         THEN StreamChangesNext(log, n.pos, senderAlive, kind, data_type,
                                Append(raw, n.item), lagged)
         ELSE [res |-> p.res, val |-> p.val, pos |-> n.pos,
               raw |-> Append(raw, n.item), lagged |-> lagged]

\* resource_changes.next(): BroadcastStream with map_while(Result::ok), then
\* the filters for DataStreamChanged of this input.  res is "Item", "Ended"
\* (Lagged) or "Pending".
RECURSIVE ResourceChangesNext(_, _, _)
ResourceChangesNext(log, rpos, id) ==
    LET n == RxNext(log, rpos, TRUE) IN
    IF n.res = "Lagged" THEN [res |-> "Ended", rpos |-> n.pos]
    ELSE IF n.res = "Empty" THEN [res |-> "Pending", rpos |-> n.pos]
    ELSE IF n.item.op = "DataStreamChanged" /\ n.item.id = id
    THEN [res |-> "Item", rpos |-> n.pos]
    ELSE ResourceChangesNext(log, n.pos, id)

\* ReplacementChangeFromDataStreamSnapshot::replace_from_snapshot for
\* ListChange (Replace of every element encoded) and Option<Vec<u8>>
ReplaceFromSnapshot(kind, s, data_type) ==
    IF s.kind # kind
    THEN PollResult("Err", <<>>, "can only be created from a snapshot of its kind")
    ELSE IF \E k \in 1..Len(Snapshot(s)) : ~Encode(data_type, Snapshot(s)[k]).ok
    THEN PollResult("Err", <<>>, "encode")
    ELSE PollResult(IF kind = "List" THEN "Replace" ELSE "Value",
                    [k \in 1..Len(Snapshot(s)) |-> Encode(data_type, Snapshot(s)[k]).bytes],
                    "")

CursorStream(c) ==
    StreamChangesNext(streams[c.chan].updates, c.pos, Alive(c.chan), c.kind, c.data_type,
                      c.raw, c.lagged)

CursorResource(c) == ResourceChangesNext(inputs.changes, c.rpos, c.input_id)

\* InputChangeStream::poll_change_blocking, the select! branch on
\* stream_changes.next(): taken when that future is ready.
PollStream(k) ==
    /\ k \in DOMAIN cursors
    /\ ~cursors[k].dead
    /\ Len(cursors[k].got) < MaxPolls
    /\ LET c == cursors[k]
           n == CursorStream(c)
           val == IF n.res = "Ended"
                  THEN PollResult("Err", <<>>, "Stream ended unexpectedly")
                  ELSE n.val
       IN /\ n.res # "Pending"
          /\ cursors' = [cursors EXCEPT ![k] =
                            [@ EXCEPT !.pos = n.pos, !.raw = n.raw, !.lagged = n.lagged,
                                      !.dead = (n.res = "Panic"),
                                      !.got = Append(@, val)]]
          /\ ret' = [Ret("poll_change_blocking", n.res = "Item", "inputs", c.input_id, k)
                        EXCEPT !.val = val, !.pend = (CursorResource(c).res = "Item")]
    /\ UNCHANGED <<streams, inputs, outputs, regSubs, nbinds, bound, issued>>

\* InputChangeStream::poll_change_blocking, the select! branch on
\* resource_changes.next(): storage.get, the snapshot of the stream the entry
\* holds now, replace_from_snapshot with the entry's data type.
PollResource(k) ==
    /\ k \in DOMAIN cursors
    /\ ~cursors[k].dead
    /\ Len(cursors[k].got) < MaxPolls
    /\ LET c == cursors[k]
           n == CursorResource(c)
           val == IF n.res = "Ended"
                  THEN PollResult("Err", <<>>, "Resource stream ended unexpectedly")
                  ELSE IF c.input_id \notin DOMAIN inputs.state
                  THEN PollResult("Err", <<>>, "Output does not exist")
                  ELSE ReplaceFromSnapshot(c.kind, streams[inputs.state[c.input_id].stream],
                                           inputs.state[c.input_id].metadata.data_type)
           synthetic == val.kind \in {"Replace", "Value"}
       IN /\ n.res # "Pending"
          /\ cursors' = [cursors EXCEPT ![k] =
                            [@ EXCEPT !.rpos = n.rpos,
                                      !.got = Append(@, val),
                                      !.markChan = IF synthetic
                                                   THEN inputs.state[c.input_id].stream ELSE @,
                                      !.mark = IF synthetic
                                               THEN Len(streams[inputs.state[c.input_id].stream].updates)
                                               ELSE @,
                                      !.markIdx = IF synthetic THEN Len(c.got) + 1 ELSE @]]
          /\ ret' = [Ret("poll_change_blocking", val.kind # "Err", "inputs", c.input_id, k)
                        EXCEPT !.val = val, !.pend = (n.res = "Item")]
    /\ UNCHANGED <<streams, inputs, outputs, regSubs, nbinds, bound, issued>>

\* InputChangeStream::poll_change: stream_changes.next().now_or_never()
\* flattened - the change the receiver has ready, or None when it has none
\* or has ended; resource_changes is not looked at.
PollChange(k) ==
    /\ k \in DOMAIN cursors
    /\ ~cursors[k].dead
    /\ Len(cursors[k].got) < MaxPolls
    /\ LET c == cursors[k]
           n == CursorStream(c)
           val == IF n.res \in {"Ended", "Pending"} THEN NoPoll ELSE n.val
       IN /\ cursors' = [cursors EXCEPT ![k] =
                            [@ EXCEPT !.pos = n.pos, !.raw = n.raw, !.lagged = n.lagged,
                                      !.dead = (n.res = "Panic"),
                                      !.got = Append(@, val)]]
          /\ ret' = [Ret("poll_change", n.res # "Panic", "inputs", c.input_id, k)
                        EXCEPT !.val = val, !.pend = (CursorResource(c).res = "Item")]
    /\ UNCHANGED <<streams, inputs, outputs, regSubs, nbinds, bound, issued>>

EntryIds == 0..(MaxIds - 1)

\* A cursor across binds: inputs with streams of their own or made holding
\* an output's stream, bound, the output written, the cursor polled either
\* way.
NextCursor ==
    /\ \/ \E kind \in {"Value", "List"}, name \in Names, dt \in DataTypes :
             AddInput(kind, name, dt)
       \/ \E kind \in {"Value", "List"}, name \in Names, dt \in DataTypes :
             AddOutput(kind, name, dt)
       \/ \E name \in Names, dt \in DataTypes, o \in EntryIds : BindInput(name, dt, o)
       \/ \E i \in EntryIds, o \in EntryIds : Bind(i, o)
       \/ \E o \in EntryIds, val \in Values : OutListAdd(o, val)
       \/ \E o \in EntryIds, val \in Values : OutValueSet(o, val)
       \/ \E i \in EntryIds : GetChangeStream(i)
       \/ \E k \in 1..MaxCursors : PollStream(k)
       \/ \E k \in 1..MaxCursors : PollResource(k)
       \/ \E k \in 1..MaxCursors : PollChange(k)
    /\ UNCHANGED <<listVars, treeVars, runVars, dataVars, resultVars, lockVars, snapVars, requestVars>>

\* Binding: entries are added, inputs bound, streams written and followed.
NextReg ==
    /\ \/ \E kind \in {"Value", "List"}, name \in Names, dt \in DataTypes :
             AddInput(kind, name, dt)
       \/ \E kind \in {"Value", "List"}, name \in Names, dt \in DataTypes :
             AddOutput(kind, name, dt)
       \/ \E i \in EntryIds, o \in EntryIds : Bind(i, o)
       \/ \E o \in EntryIds, val \in Values : OutListAdd(o, val)
       \/ \E o \in EntryIds : OutListPop(o)
       \/ \E o \in EntryIds : OutListClear(o)
       \/ \E o \in EntryIds, val \in Values : OutValueSet(o, val)
       \/ \E i \in EntryIds, val \in Values : InListAdd(i, val)
       \/ \E i \in EntryIds, val \in Values : InValueSet(i, val)
       \/ \E i \in EntryIds : GetChangeStream(i)
       \/ \E k \in 1..MaxCursors : PollStream(k)
       \/ \E k \in 1..MaxCursors : PollResource(k)
    /\ UNCHANGED <<listVars, treeVars, runVars, dataVars, resultVars, lockVars, snapVars, requestVars>>

\* What a list cursor is handed: an input holding a list output's stream,
\* both of type string, the stream written in every way, the cursor polled
\* either way.
NextProject ==
    /\ \/ \E name \in Names : AddOutput("List", name, "string")
       \/ \E name \in Names, o \in EntryIds : BindInput(name, "string", o)
       \/ \E o \in EntryIds, val \in Values : OutListAdd(o, val)
       \/ \E o \in EntryIds : OutListPop(o)
       \/ \E o \in EntryIds : OutListClear(o)
       \/ \E o \in EntryIds, b \in BOOLEAN : OutListSetHasMoreRows(o, b)
       \/ \E i \in EntryIds : GetChangeStream(i)
       \/ \E k \in 1..MaxCursors : PollStream(k)
       \/ \E k \in 1..MaxCursors : PollChange(k)
    /\ UNCHANGED <<listVars, treeVars, runVars, dataVars, resultVars, lockVars, snapVars, requestVars>>

\* A cursor whose stream is destroyed: inputs with streams of their own,
\* written and removed, the cursor polled either way.
NextDestroy ==
    /\ \/ \E kind \in {"Value", "List"}, name \in Names : AddInput(kind, name, "string")
       \/ \E i \in EntryIds : RemoveInput(i) /\ i \in DOMAIN inputs.state
       \/ \E i \in EntryIds, val \in ValuesOf("string") : InListAdd(i, val)
       \/ \E i \in EntryIds, val \in ValuesOf("string") : InValueSet(i, val)
       \/ \E i \in EntryIds : GetChangeStream(i)
       \/ \E k \in 1..MaxCursors : PollStream(k)
       \/ \E k \in 1..MaxCursors : PollChange(k)
    /\ UNCHANGED <<listVars, treeVars, runVars, dataVars, resultVars, lockVars, snapVars, requestVars>>

\* An input bound again: a list input, two list outputs, the input bound to
\* one and then to the other, both written, the input's stream followed by
\* cursors taken at any point.
NextRebind ==
    /\ \/ \E name \in Names : AddInputWithin("List", name, "string", MaxRebindStreams)
       \/ \E name \in Names :
             AddOutputWithin("List", name, "string", MaxRebindStreams, MaxRebindOutputs)
       \/ \E i \in EntryIds, o \in EntryIds : BindWithin(i, o, MaxRebinds)
       \/ \E o \in EntryIds, val \in ValuesOf("string") : OutListAdd(o, val)
       \/ \E o \in EntryIds : OutListPop(o)
       \/ \E i \in EntryIds : GetChangeStream(i)
       \/ \E k \in 1..MaxCursors : PollStream(k)
    /\ UNCHANGED <<listVars, treeVars, runVars, dataVars, resultVars, lockVars, snapVars, requestVars>>

\* The registries alone: entries come and go and inputs are bound.
NextStorage ==
    /\ \/ \E kind \in {"Value", "List"}, name \in Names, dt \in DataTypes :
             AddInput(kind, name, dt)
       \/ \E kind \in {"Value", "List"}, name \in Names, dt \in DataTypes :
             AddOutput(kind, name, dt)
       \/ \E name \in Names, dt \in DataTypes, o \in EntryIds : BindInput(name, dt, o)
       \/ \E i \in EntryIds : RemoveInput(i)
       \/ \E o \in EntryIds : RemoveOutput(o)
       \/ \E i \in EntryIds, o \in EntryIds : Bind(i, o)
       \/ RegSubscribe
       \/ \E k \in 1..MaxRegSubs : RegRecv(k)
    /\ UNCHANGED <<listVars, treeVars, runVars, dataVars, resultVars, lockVars, snapVars, requestVars>>

\* ================================================= the run builder (SpecRun)
ArgNames == {"a", "b", "c"}

\* The type strings a schema may carry: those of the streams, and a struct.
ArgTypes == DataTypes \cup {"struct S<a: string>"}

\* ArgumentSpec of the guest's schema
ArgumentSpecs == {[name |-> n, description |-> "about " \o n, data_type |-> dt] :
                     n \in ArgNames, dt \in ArgTypes}

\* Schemas of at most MaxArgs arguments.
Schemas == UNION {[1..n -> ArgumentSpecs] : n \in 0..MaxArgs}

\* A program: the schema its guest reports, and whether its module
\* instantiates (load_instance).
Programs == {[arguments |-> a, loadable |-> l] : a \in Schemas, l \in BOOLEAN}

\* bindings::streaming_inputs::Input: the variant and the resource's id
Input(kind, id) == [kind |-> kind, id |-> id]

\* inputs: BTreeMap<String, Input>, as a function on the names configured
NoBuilder ==
    [st |-> "none", msg |-> "", name |-> "",
     inputs |-> [n \in {} |-> Input("", -1)], schema |-> <<>>]

\* The try_fold over the argument names: the first name that is already in
\* existing_names, or "" when the fold reaches the end.
RECURSIVE FirstDuplicateName(_, _)
FirstDuplicateName(arguments, existing_names) ==
    IF arguments = <<>> THEN ""
    ELSE IF Head(arguments).name \in existing_names THEN Head(arguments).name
    ELSE FirstDuplicateName(Tail(arguments), existing_names \cup {Head(arguments).name})

\* A StreamingRunBuilder::new without the check of the names (what C20 must
\* rule out).
StreamingRunBuilder_new_unchecked(p) ==
    IF ~p.loadable
    THEN [NoBuilder EXCEPT !.st = "err", !.msg = "instantiate"]
    ELSE [NoBuilder EXCEPT !.st = "ok", !.schema = p.arguments]

\* StreamingRunBuilder::new
StreamingRunBuilder_new(p) ==
    IF ~p.loadable
    THEN [NoBuilder EXCEPT !.st = "err", !.msg = "instantiate"]
    ELSE IF FirstDuplicateName(p.arguments, {}) # ""
    THEN [NoBuilder EXCEPT !.st = "err",
                           !.msg = "Schema contains duplicate argument name",
                           !.name = FirstDuplicateName(p.arguments, {})]
    ELSE [NoBuilder EXCEPT !.st = "ok", !.schema = p.arguments]

NoRun == [st |-> "none", arguments |-> <<>>]

\* No run was asked for: the program of the other specifications.
InitRunVars ==
    /\ program = [arguments |-> <<>>, loadable |-> TRUE]
    /\ builder = NoBuilder
    /\ run = NoRun

\* CommanderStreamingProgram::run
Run ==
    /\ builder' = StreamingRunBuilder_new(program)
    /\ UNCHANGED <<program, run>>

NextRun ==
    /\ Run
    /\ UNCHANGED <<regVars, listVars, treeVars, dataVars, resultVars, lockVars, snapVars, requestVars>>

\* ======================================= the type algebra and codec (SpecData)
\* The primitive types the grammar's static rule admits (a list's element is
\* a static type), and trigger.
StaticPrimitives ==
    {"boolean", "number", "string", "bytes", "color", "json", "svg", "path"}

PrimitiveType(k) == [k |-> k]

\* CommanderEnumDataType::new: the variants in declaration order (the ordinal
\* of a variant is its index, from 0)
EnumType(name, variants) == [k |-> "enum", name |-> name, variants |-> variants]

\* CommanderStructTypeBuilder::build: field_names and field_types, as one
\* sequence of (name, type) in declaration order
StructType(name, fields) == [k |-> "struct", name |-> name, fields |-> fields]

\* CommanderTypedListDataType::new
ListType(child) == [k |-> "list", child |-> child]

Field(name, type) == [name |-> name, type |-> type]

EnumTypes == {EnumType("Number", <<"ONE", "TWO">>), EnumType("Number", <<"TWO", "ONE">>)}

StructTypes ==
    {StructType("S", <<Field("a", PrimitiveType("boolean")), Field("b", PrimitiveType("string"))>>),
     StructType("S", <<Field("b", PrimitiveType("string")), Field("a", PrimitiveType("boolean"))>>),
     StructType("S", <<Field("b", PrimitiveType("string")), Field("a", PrimitiveType("string"))>>)}

StaticTypes == {PrimitiveType(k) : k \in StaticPrimitives} \cup EnumTypes \cup StructTypes

\* Lists nested MaxNesting deep at most.
RECURSIVE ListTypes(_)
ListTypes(n) ==
    IF n = 0 THEN {}
    ELSE {ListType(c) : c \in StaticTypes \cup ListTypes(n - 1)}

\* The types of the algebra that are checked.
Types == {PrimitiveType("trigger")} \cup StaticTypes \cup ListTypes(MaxNesting)

\* CommanderValue: the variant's tag and the payload.
Value(tag, v) == [tag |-> tag, v |-> v]

\* Field names in the order a BTreeMap<String, _> iterates them.
SortedNames == <<"a", "b">>

FieldNames(t) == {t.fields[k].name : k \in 1..Len(t.fields)}

\* The values well formed against a type: for a list, the sequences of at
\* most MaxElems elements of the element type; for a struct, the maps from
\* its field names to values of the fields' types.
RECURSIVE ValuesOfType(_)
RECURSIVE MapsOf(_)
MapsOf(fields) ==
    IF fields = <<>> THEN {[n \in {} |-> Value("none", "")]}
    ELSE {[n \in DOMAIN m \cup {Head(fields).name} |->
              IF n = Head(fields).name THEN v ELSE m[n]] :
            m \in MapsOf(Tail(fields)), v \in ValuesOfType(Head(fields).type)}

ValuesOfType(t) ==
    IF t.k = "boolean" THEN {Value("boolean", TRUE), Value("boolean", FALSE)}
    ELSE IF t.k = "string" THEN {Value("string", "x"), Value("string", "y")}
    ELSE IF t.k = "number" THEN {Value("number", 1)}
    ELSE IF t.k = "trigger" THEN {Value("trigger", "unit")}
    ELSE IF t.k = "path" THEN {Value("path", <<"usr", "lib">>)}
    ELSE IF t.k = "enum"
    THEN {Value("enum", [name |-> t.variants[o], ordinal |-> o - 1]) : o \in 1..Len(t.variants)}
    ELSE IF t.k = "struct"
    THEN {Value("struct", m) : m \in MapsOf(t.fields)}
    ELSE IF t.k = "list"
    THEN {Value("list", l) :
            l \in UNION {[1..n -> ValuesOfType(t.child)] : n \in 0..MaxElems}}
    ELSE {Value(t.k, "v")}

\* type_string: the printed form, as the sequence of its tokens.
RECURSIVE TypeString(_)
RECURSIVE FieldsString(_)
RECURSIVE VariantsString(_)
VariantsString(variants) ==
    IF variants = <<>> THEN <<>>
    ELSE IF Len(variants) = 1 THEN <<variants[1]>>
    ELSE <<variants[1], ",">> \o VariantsString(Tail(variants))

FieldsString(fields) ==
    IF fields = <<>> THEN <<>>
    ELSE IF Len(fields) = 1 THEN <<fields[1].name, ":">> \o TypeString(fields[1].type)
    ELSE <<fields[1].name, ":">> \o TypeString(fields[1].type) \o <<",">>
         \o FieldsString(Tail(fields))

TypeString(t) ==
    IF t.k = "enum" THEN <<"enum", t.name, "<">> \o VariantsString(t.variants) \o <<">">>
    ELSE IF t.k = "struct" THEN <<"struct", t.name, "<">> \o FieldsString(t.fields) \o <<">">>
    ELSE IF t.k = "list" THEN <<"list", "<">> \o TypeString(t.child) \o <<">">>
    ELSE <<t.k>>

NoType == [k |-> "none"]

Parsed(st, type, rest) == [st |-> st, type |-> type, rest |-> rest]

\* expand_enum_type: the variants up to the closing bracket
RECURSIVE ExpandVariants(_, _)
ExpandVariants(toks, variants) ==
    IF Len(toks) < 2 THEN Parsed("err", NoType, toks)
    ELSE IF toks[2] = "," THEN ExpandVariants(SubSeq(toks, 3, Len(toks)), Append(variants, toks[1]))
    ELSE IF toks[2] = ">"
    THEN Parsed("ok", Append(variants, toks[1]), SubSeq(toks, 3, Len(toks)))
    ELSE Parsed("err", NoType, toks)

\* expand_static_type, expand_list_type, expand_enum_type and
\* expand_primitive_type on what the grammar recognised: st is "ok", "err"
\* (the text is not of the grammar) or "panic" (todo!() for struct and url).
RECURSIVE ExpandStaticType(_)
ExpandStaticType(toks) ==
    IF toks = <<>> THEN Parsed("err", NoType, toks)
    ELSE IF toks[1] = "list"
    THEN IF Len(toks) < 2 \/ toks[2] # "<" THEN Parsed("err", NoType, toks)
         ELSE LET c == ExpandStaticType(SubSeq(toks, 3, Len(toks))) IN
              IF c.st # "ok" THEN c
              ELSE IF c.rest # <<>> /\ c.rest[1] = ">"
              THEN Parsed("ok", ListType(c.type), Tail(c.rest))
              ELSE Parsed("err", NoType, c.rest)
    ELSE IF toks[1] = "enum"
    THEN IF Len(toks) < 3 \/ toks[3] # "<" THEN Parsed("err", NoType, toks)
         ELSE LET v == ExpandVariants(SubSeq(toks, 4, Len(toks)), <<>>) IN
              IF v.st # "ok" THEN v
              ELSE Parsed("ok", EnumType(toks[2], v.type), v.rest)
    ELSE IF toks[1] \in {"struct", "url"} THEN Parsed("panic", NoType, toks)
    ELSE IF toks[1] \in StaticPrimitives THEN Parsed("ok", PrimitiveType(toks[1]), Tail(toks))
    ELSE Parsed("err", NoType, toks)

\* commander_data::parse: TypeParser::parse(Rule::type, input), expand_type
Parse(toks) ==
    IF toks # <<>> /\ toks[1] = "trigger"
    THEN Parsed("ok", PrimitiveType("trigger"), Tail(toks))
    ELSE ExpandStaticType(toks)

\* A flexbuffer: what was serialized, and as what.
Wire(w, v) == [w |-> w, v |-> v]

Coded(ok, out) == [ok |-> ok, out |-> out]

\* Applies f's coder to every (type, item) pair of the zip; the first error
\* is the result.
RECURSIVE EncodeToSerializer(_, _)
RECURSIVE EncodeSeq(_, _)
EncodeSeq(types, values) ==
    IF types = <<>> \/ values = <<>> THEN Coded(TRUE, <<>>)
    ELSE LET h == EncodeToSerializer(Head(types), Head(values)) IN
         IF ~h.ok THEN h
         ELSE LET r == EncodeSeq(Tail(types), Tail(values)) IN
              IF ~r.ok THEN r ELSE Coded(TRUE, <<h.out>> \o r.out)

\* The values of a BTreeMap in the order of its keys.
MapValues(m) ==
    LET keys == SelectSeq(SortedNames, LAMBDA n : n \in DOMAIN m)
    IN [k \in 1..Len(keys) |-> m[keys[k]]]

\* CommanderStructDataType::encode_to_serializer: value.into_iter() - the map's
\* entries in key order - zipped with field_types in declaration order.
StructEncode(t, m) ==
    LET r == EncodeSeq([k \in 1..Len(t.fields) |-> t.fields[k].type], MapValues(m))
    IN IF r.ok THEN Coded(TRUE, Wire("vector", r.out)) ELSE r

\* CommanderDataType::encode_to_serializer: value.try_into() must give the
\* type's variant, then the variant's coder.
EncodeToSerializer(t, val) ==
    IF val.tag # t.k THEN Coded(FALSE, Wire("error", "Expected a " \o t.k \o " value"))
    ELSE IF t.k = "enum" THEN Coded(TRUE, Wire("uint", val.v.ordinal))
    ELSE IF t.k = "struct" THEN StructEncode(t, val.v)
    ELSE IF t.k = "list"
    THEN LET r == EncodeSeq([k \in 1..Len(val.v) |-> t.child], val.v)
         IN IF r.ok THEN Coded(TRUE, Wire("vector", r.out)) ELSE r
    ELSE Coded(TRUE, Wire(t.k, val.v))

RECURSIVE DecodeFromReader(_, _)
RECURSIVE DecodeSeq(_, _)
DecodeSeq(types, wires) ==
    IF types = <<>> \/ wires = <<>> THEN Coded(TRUE, <<>>)
    ELSE LET h == DecodeFromReader(Head(types), Head(wires)) IN
         IF ~h.ok THEN h
         ELSE LET r == DecodeSeq(Tail(types), Tail(wires)) IN
              IF ~r.ok THEN r ELSE Coded(TRUE, <<h.out>> \o r.out)

\* CommanderDataType::decode_from_reader.  For a struct the decoded values
\* are zipped with field_names and collected into the map.
DecodeFromReader(t, wire) ==
    IF t.k = "enum"
    THEN IF wire.w = "uint" /\ wire.v + 1 \in 1..Len(t.variants)
         THEN Coded(TRUE, Value("enum", [name |-> t.variants[wire.v + 1], ordinal |-> wire.v]))
         ELSE Coded(FALSE, Value("error", "Unknown enum variant"))
    ELSE IF t.k = "struct"
    THEN IF wire.w # "vector" THEN Coded(FALSE, Value("error", "get_vector"))
         ELSE LET r == DecodeSeq([k \in 1..Len(t.fields) |-> t.fields[k].type], wire.v)
              IN IF ~r.ok THEN r
                 ELSE Coded(TRUE, Value("struct",
                         [n \in {t.fields[k].name : k \in 1..Len(r.out)} |->
                             r.out[CHOOSE k \in 1..Len(r.out) : t.fields[k].name = n]]))
    ELSE IF t.k = "list"
    THEN IF wire.w # "vector" THEN Coded(FALSE, Value("error", "get_vector"))
         ELSE LET r == DecodeSeq([k \in 1..Len(wire.v) |-> t.child], wire.v)
              IN IF ~r.ok THEN r ELSE Coded(TRUE, Value("list", r.out))
    ELSE IF wire.w = t.k THEN Coded(TRUE, Value(t.k, wire.v))
    ELSE Coded(FALSE, Value("error", "deserialize"))

\* CommanderCoder::encode, then CommanderCoder::decode of the bytes.
RoundTrip(t, val) ==
    LET e == EncodeToSerializer(t, val) IN
    IF ~e.ok THEN [st |-> "encode failed", value |-> Value("error", "")]
    ELSE LET d == DecodeFromReader(t, e.out) IN
         IF ~d.ok THEN [st |-> "decode failed", value |-> Value("error", "")]
         ELSE [st |-> "ok", value |-> d.out]

NoOut == [op |-> "none", st |-> "", type |-> NoType, value |-> Value("none", "")]

\* No type is being looked at: the type and value of the other specifications.
InitDataVars ==
    /\ dtype = PrimitiveType("trigger")
    /\ dvalue = Value("trigger", "unit")
    /\ dout = NoOut

\* parse(t.type_string())
ParsePrinted ==
    /\ dout' = [NoOut EXCEPT !.op = "parse",
                             !.st = Parse(TypeString(dtype)).st,
                             !.type = Parse(TypeString(dtype)).type]
    /\ UNCHANGED <<dtype, dvalue>>

\* t.decode(&t.encode(v))
EncodeDecode ==
    /\ dout' = [NoOut EXCEPT !.op = "decode",
                             !.st = RoundTrip(dtype, dvalue).st,
                             !.value = RoundTrip(dtype, dvalue).value]
    /\ UNCHANGED <<dtype, dvalue>>

NextData ==
    /\ \/ ParsePrinted
       \/ EncodeDecode
    /\ UNCHANGED <<regVars, listVars, treeVars, runVars, resultVars, lockVars, snapVars, requestVars>>

\* ============================================ starting a run (SpecStart)
\* The type string of an argument, as the tokens of the grammar.
TypeTokens(data_type) ==
    IF data_type = "list<string>" THEN <<"list", "<", "string", ">">>
    ELSE IF data_type = "struct S<a: string>"
    THEN TypeString(StructType("S", <<Field("a", PrimitiveType("string"))>>))
    ELSE <<data_type>>

\* ValueInputHandle / ListInputHandle / InputHandle::as_input_binding, the
\* InputHandle being made from_metadata by the entry's data_stream_type.
AsInputBinding(metadata) ==
    Input(IF metadata.data_stream_type = "List" THEN "list-input" ELSE "value-input",
          metadata.id)

\* StreamingRunBuilder::bind_argument: Inputs::bind_input registers an entry
\* that holds the output's stream; the binding goes under the argument's name.
BindArgument(argument, o) ==
    /\ builder.st = "ok"
    /\ Cardinality(DOMAIN inputs.state) < MaxConfigured
    /\ o \in DOMAIN outputs.state
    /\ Parse(TypeTokens(argument.data_type)).st = "ok"
    /\ LET r == DataStreamStorage_add(inputs, argument.name, argument.description,
                                      argument.data_type,
                                      outputs.state[o].metadata.data_stream_type,
                                      outputs.state[o].stream)
       IN /\ inputs' = r.reg
          /\ builder' = [builder EXCEPT !.inputs =
                            [n \in DOMAIN @ \cup {argument.name} |->
                                IF n = argument.name
                                THEN AsInputBinding(r.reg.state[r.id].metadata)
                                ELSE @[n]]]
    /\ UNCHANGED <<program, run, streams, outputs, regSubs, cursors, ret, nbinds, bound,
                   issued>>

\* StreamingRunBuilder::set_value_argument: Inputs::new_value_input with
\* Some(initial_value)
SetValueArgument(argument, initial_value) ==
    /\ builder.st = "ok"
    /\ Cardinality(DOMAIN inputs.state) < MaxConfigured
    /\ Parse(TypeTokens(argument.data_type)).st = "ok"
    /\ LET r == DataStreamStorage_add(inputs, argument.name, argument.description,
                                      argument.data_type, "Value", Len(streams) + 1)
       IN /\ inputs' = r.reg
          /\ builder' = [builder EXCEPT !.inputs =
                            [n \in DOMAIN @ \cup {argument.name} |->
                                IF n = argument.name
                                THEN AsInputBinding(r.reg.state[r.id].metadata)
                                ELSE @[n]]]
    /\ streams' = Append(streams, ValueStream_new(<<initial_value>>))
    /\ UNCHANGED <<program, run, outputs, regSubs, cursors, ret, nbinds, bound, issued>>

Started(st, arguments, reg, strs) ==
    [st |-> st, arguments |-> arguments, reg |-> reg, streams |-> strs]

\* The else branch of start's map closure: commander_data::parse of the
\* argument's type, then Inputs::new_generic_list_input for a list type and
\* Inputs::new_value_input(.., None) for any other; an Err of parse is
\* start's, and so is its panic.
DefaultInput(arg_spec, reg, strs) ==
    LET data_type == Parse(TypeTokens(arg_spec.data_type)) IN
    IF data_type.st # "ok" THEN Started(data_type.st, <<>>, reg, strs)
    ELSE LET kind == IF data_type.type.k = "list" THEN "List" ELSE "Value"
             r == DataStreamStorage_add(reg, arg_spec.name, arg_spec.description,
                                        arg_spec.data_type, kind, Len(strs) + 1)
         IN Started("ok", <<AsInputBinding(r.reg.state[r.id].metadata)>>, r.reg,
                    Append(strs, IF kind = "List" THEN ListStream_new
                                 ELSE ValueStream_new(<<>>)))

\* The map over schema.arguments in start, collected: inputs.remove(name)
\* gives the configured input, or a default is registered.
RECURSIVE FullArguments(_, _, _, _)
FullArguments(arguments, configured, reg, strs) ==
    IF arguments = <<>> THEN Started("ok", <<>>, reg, strs)
    ELSE LET arg_spec == Head(arguments)
             first == IF arg_spec.name \in DOMAIN configured
                      THEN Started("ok", <<configured[arg_spec.name]>>, reg, strs)
                      ELSE DefaultInput(arg_spec, reg, strs)
         IN IF first.st # "ok" THEN first
            ELSE LET rest == FullArguments(Tail(arguments),
                                           [n \in DOMAIN configured \ {arg_spec.name} |->
                                               configured[n]],
                                           first.reg, first.streams)
                 IN IF rest.st # "ok" THEN rest
                    ELSE Started("ok", first.arguments \o rest.arguments, rest.reg,
                                 rest.streams)

\* StreamingRunBuilder::start: the builder is consumed, the guest's run is
\* called with full_arguments; when the arguments could not be made nothing
\* is called, and what was registered for earlier arguments stays.
Start ==
    /\ builder.st = "ok"
    /\ LET r == FullArguments(builder.schema, builder.inputs, inputs, streams)
       IN /\ run' = [st |-> r.st, arguments |-> r.arguments]
          /\ inputs' = r.reg
          /\ streams' = r.streams
    /\ builder' = [builder EXCEPT !.st = "started"]
    /\ UNCHANGED <<program, outputs, regSubs, cursors, ret, nbinds, bound, issued>>

\* An output of another run, for bind_argument to take.
StartAddOutput(kind, name, data_type) ==
    /\ AddOutput(kind, name, data_type)
    /\ UNCHANGED runVars

NextStart ==
    /\ \/ Run /\ builder.st = "none" /\ UNCHANGED regVars
       \/ \E kind \in {"Value", "List"}, dt \in DataTypes : StartAddOutput(kind, "arg", dt)
       \/ \E argument \in ArgumentSpecs, o \in EntryIds : BindArgument(argument, o)
       \/ \E argument \in ArgumentSpecs, val \in Values :
             val.t = argument.data_type /\ SetValueArgument(argument, val)
       \/ Start
    /\ UNCHANGED <<listVars, treeVars, dataVars, resultVars, lockVars, snapVars, requestVars>>

\* ============================================= the run handle (SpecResult)
\* What the future of run_wrapper gives: the guest's Ok(string), the guest's
\* Err(string), or the Err of a trap in the sandbox.
RunOutcomes ==
    {[k |-> "success", v |-> "done"], [k |-> "error", v |-> "bad"],
     [k |-> "trap", v |-> "wasm trap: unreachable"]}

\* result: run_future.await.and_then(|r| r.map_err(anyhow!(..)))
ResultOf(outcome) ==
    IF outcome.k = "success" THEN [ok |-> TRUE, v |-> outcome.v]
    ELSE IF outcome.k = "error"
    THEN [ok |-> FALSE, v |-> "Program ended with an error: " \o outcome.v]
    ELSE [ok |-> FALSE, v |-> outcome.v]

\* watch::channel(None): the value, its version, and whether the sender is
\* gone
WatchChannel(value, version, closed) ==
    [value |-> value, version |-> version, closed |-> closed]

\* A CommanderStreamingProgramRun: the version its result_reader has seen,
\* where its call of get_result stands, and what its last call returned.
Handle(version) ==
    [version |-> version, pc |-> "idle", got |-> <<>>, waited |-> FALSE, calls |-> 0]

\* CommanderStreamingProgramRun::new
InitResultVars ==
    /\ guest = [st |-> "running", outcome |-> [k |-> "none", v |-> ""]]
    /\ result_channel = WatchChannel(<<>>, 0, FALSE)
    /\ handles = <<Handle(0)>>

\* The spawned task: run_future is done, result_writer.send(Some(result))
RunReturns(outcome) ==
    /\ guest.st = "running"
    /\ guest' = [st |-> "returned", outcome |-> outcome]
    /\ result_channel' = [result_channel EXCEPT !.value = <<ResultOf(outcome)>>,
                                                !.version = @ + 1]
    /\ UNCHANGED handles

\* The spawned task panics in a host function the guest called: nothing is
\* sent, the unwinding drops result_writer.
RunPanics ==
    /\ guest.st = "running"
    /\ guest' = [guest EXCEPT !.st = "panicked"]
    /\ result_channel' = [result_channel EXCEPT !.closed = TRUE]
    /\ UNCHANGED handles

\* The spawned task ends after its send: result_writer is dropped.
TaskEnds ==
    /\ guest.st = "returned"
    /\ ~result_channel.closed
    /\ result_channel' = [result_channel EXCEPT !.closed = TRUE]
    /\ UNCHANGED <<guest, handles>>

\* derive(Clone): watch::Receiver::clone copies the version seen
CloneHandle(h) ==
    /\ h \in 1..Len(handles)
    /\ Len(handles) < MaxHandles
    /\ handles[h].pc = "idle"
    /\ handles' = Append(handles, Handle(handles[h].version))
    /\ UNCHANGED <<guest, result_channel>>

\* watch::Receiver::changed tells of the closed channel before it looks at
\* the version (what C22 must rule out).
Changed_closed_first(channel, version) ==
    IF channel.closed THEN "err"
    ELSE IF channel.version # version THEN "ok"
    ELSE "pending"

\* watch::Receiver::changed: Ok when the channel's version is not the one
\* seen, else Err when the sender is gone, else it waits.
Changed(channel, version) ==
    IF channel.version # version THEN "ok"
    ELSE IF channel.closed THEN "err"
    ELSE "pending"

\* get_result up to its await: the value is there and is returned, or
\* changed() is to be awaited.
GetResult(h) ==
    /\ h \in 1..Len(handles)
    /\ handles[h].pc = "idle"
    /\ handles[h].calls < MaxCalls
    /\ handles' = [handles EXCEPT ![h] =
                      IF result_channel.value = <<>>
                      THEN [@ EXCEPT !.pc = "changed", !.calls = @ + 1]
                      ELSE [@ EXCEPT !.got = result_channel.value, !.waited = FALSE,
                                     !.calls = @ + 1]]
    /\ UNCHANGED <<guest, result_channel>>

\* get_result from its await on: changed().await.unwrap(), then
\* borrow().as_ref().unwrap().clone()
GetResultResumes(h) ==
    /\ h \in 1..Len(handles)
    /\ handles[h].pc = "changed"
    /\ LET c == Changed(result_channel, handles[h].version) IN
       /\ c # "pending"
       /\ handles' = [handles EXCEPT ![h] =
                         IF c = "err" \/ result_channel.value = <<>>
                         THEN [@ EXCEPT !.pc = "panicked"]
                         ELSE [@ EXCEPT !.pc = "idle", !.version = result_channel.version,
                                        !.got = result_channel.value, !.waited = TRUE]]
    /\ UNCHANGED <<guest, result_channel>>

NextResult ==
    /\ \/ \E outcome \in RunOutcomes : RunReturns(outcome)
       \/ RunPanics
       \/ TaskEnds
       \/ \E h \in 1..MaxHandles : CloneHandle(h)
       \/ \E h \in 1..MaxHandles : GetResult(h)
       \/ \E h \in 1..MaxHandles : GetResultResumes(h)
    /\ UNCHANGED <<regVars, listVars, treeVars, runVars, dataVars, lockVars, snapVars, requestVars>>

\* ================================= the registries after the run (SpecOutlive)
\* The future of run_wrapper is dropped before it is done (the runtime shuts
\* down, the task is aborted): nothing is sent and result_writer is dropped.
TaskCancelled ==
    /\ guest.st = "running"
    /\ guest' = [guest EXCEPT !.st = "cancelled"]
    /\ result_channel' = [result_channel EXCEPT !.closed = TRUE]
    /\ UNCHANGED handles

\* A store dropped with the task that empties the registries it holds (what
\* C34 must rule out).
StoreDropped_clearing ==
    /\ outputs' = [outputs EXCEPT !.state = DataStreamStorage_default.state]
    /\ inputs' = [inputs EXCEPT !.state = DataStreamStorage_default.state]
    /\ UNCHANGED <<streams, regSubs, cursors, ret, nbinds, bound, issued>>

\* The Store<WasmStorage> that run_wrapper owns is dropped with the future:
\* its clones of the two DataStreamStorage (Arc) go, the run's clones, taken
\* in start, keep the registries and the streams in them.
StoreDropped == UNCHANGED regVars

\* The guest stops: run returns, a host function it called panics, or the
\* task is cancelled.
GuestStops ==
    /\ \/ \E outcome \in RunOutcomes : RunReturns(outcome)
       \/ RunPanics
       \/ TaskCancelled
    /\ StoreDropped

\* A call the guest makes through the host bridge: only while it runs.
GuestCalls(call) == guest.st = "running" /\ call /\ UNCHANGED resultVars

\* A call the host makes on the run's inputs() at any time.
HostCalls(call) == call /\ UNCHANGED resultVars

\* A run from start on: the host adds inputs and writes to them, the guest
\* adds outputs, writes to them and drops them, and stops in any way.
NextOutlive ==
    /\ \/ \E name \in Names : HostCalls(AddInput("List", name, "string"))
       \/ \E i \in EntryIds, val \in ValuesOf("string") : HostCalls(InListAdd(i, val))
       \/ \E kind \in {"Value", "List"}, name \in Names :
             GuestCalls(AddOutput(kind, name, "string"))
       \/ \E o \in EntryIds, val \in ValuesOf("string") : GuestCalls(OutListAdd(o, val))
       \/ \E o \in EntryIds : GuestCalls(OutListPop(o))
       \/ \E o \in EntryIds, val \in ValuesOf("string") : GuestCalls(OutValueSet(o, val))
       \/ \E o \in EntryIds : GuestCalls(RemoveOutput(o) /\ o \in DOMAIN outputs.state)
       \/ GuestStops
       \/ TaskEnds /\ UNCHANGED regVars
    /\ UNCHANGED <<listVars, treeVars, runVars, dataVars, lockVars, snapVars, requestVars>>

\* ============================================ the registry lock (SpecLock)
\* The guest's task (the host-bridge calls run on it, one at a time) and a
\* thread of the host that uses the run's Inputs.
Tasks == {"guest", "host"}

\* DataStreamStorage.0 of the inputs and of the outputs registry, and the
\* RwLock of the DataStream of an input that is bound to an output.
LockNames == {"inputs", "outputs", "stream"}

\* parking_lot::RwLock: the read guards each task holds, the task holding the
\* write guard, and the tasks waiting in write().
RwLock_new == [readers |-> [t \in Tasks |-> 0], writer |-> "none", waiting |-> {}]

\* read(): the policy is task-fair - a reader is let in when no writer holds
\* the lock and none is waiting for it, whatever the reader holds already.
RwLock_can_read(l) == l.writer = "none" /\ l.waiting = {}

\* A read() that lets a reader in past a waiting writer (read_recursive; what
\* the call chains would need).
RwLock_can_read_recursive(l) == l.writer = "none"

RwLock_read(l, t) == [l EXCEPT !.readers[t] = @ + 1]

\* The read guards that t holds are dropped.
RwLock_unlock_read(l, t) == [l EXCEPT !.readers[t] = 0]

\* write() finds the lock taken and waits
RwLock_wait(l, t) == [l EXCEPT !.waiting = @ \cup {t}]

RwLock_can_write(l) == l.writer = "none" /\ \A u \in Tasks : l.readers[u] = 0

RwLock_write(l, t) == [l EXCEPT !.writer = t, !.waiting = @ \ {t}]

RwLock_unlock_write(l) == [l EXCEPT !.writer = "none"]

\* A task between calls.
Idle(calls) == [pc |-> "idle", call |-> "", calls |-> calls]

InitLockVars ==
    /\ locks = [n \in LockNames |-> RwLock_new]
    /\ tasks = [t \in Tasks |-> Idle(0)]

At(t, pc) == tasks[t].pc = pc

Goto(t, pc) == tasks' = [tasks EXCEPT ![t].pc = pc]

Returns(t) == tasks' = [tasks EXCEPT ![t] = Idle(@.calls)]

\* The calls of the guest: HostValueInput / HostListInput::get_change_stream
\* on the inputs registry, HostValueOutput::set and HostListOutput::add on the
\* outputs registry.
GuestBegins(call) ==
    /\ At("guest", "idle")
    /\ tasks["guest"].calls < MaxLockCalls
    /\ tasks' = [tasks EXCEPT !["guest"] =
                    [pc |-> IF call = "get_change_stream" THEN "inputs_get" ELSE "outputs_get",
                     call |-> call, calls |-> @.calls + 1]]
    /\ UNCHANGED locks

\* get_change_stream: `let data_stream_resource = self.inputs.get(..)?` - the
\* mapped read guard lives in the binding to the end of the function.
GetChangeStream_get ==
    /\ At("guest", "inputs_get")
    /\ RwLock_can_read(locks["inputs"])
    /\ locks' = [locks EXCEPT !["inputs"] = RwLock_read(@, "guest")]
    /\ Goto("guest", "inputs_changes")

\* get_change_stream: self.inputs.changes() is self.0.read() on the registry
\* once more, for the subscribe.
GetChangeStream_changes ==
    /\ At("guest", "inputs_changes")
    /\ RwLock_can_read(locks["inputs"])
    /\ locks' = [locks EXCEPT !["inputs"] = RwLock_read(@, "guest")]
    /\ Goto("guest", "stream_read")

\* get_change_stream: data_stream_resource.stream.read() for the subscribe
\* to the stream (the guard of changes() is gone by now).
GetChangeStream_subscribe ==
    /\ At("guest", "stream_read")
    /\ RwLock_can_read(locks["stream"])
    /\ locks' = [locks EXCEPT !["stream"] = RwLock_read(@, "guest"),
                              !["inputs"].readers["guest"] = 1]
    /\ Goto("guest", "inputs_return")

\* get_change_stream returns: the guards are dropped.
GetChangeStream_return ==
    /\ At("guest", "inputs_return")
    /\ locks' = [locks EXCEPT !["stream"] = RwLock_unlock_read(@, "guest"),
                              !["inputs"] = RwLock_unlock_read(@, "guest")]
    /\ Returns("guest")

\* set / add: `let data_type = &self.0.outputs.get(..)?.metadata.data_type` -
\* the guard is a temporary of a borrowed initializer and lives to the end of
\* the function.
OutputWrite_get ==
    /\ At("guest", "outputs_get")
    /\ RwLock_can_read(locks["outputs"])
    /\ locks' = [locks EXCEPT !["outputs"] = RwLock_read(@, "guest")]
    /\ Goto("guest", "outputs_get_again")

\* set / add: self.0.outputs.get(..).unwrap() - the registry is read-locked
\* once more, the guard a temporary of the statement.
OutputWrite_get_again ==
    /\ At("guest", "outputs_get_again")
    /\ RwLock_can_read(locks["outputs"])
    /\ locks' = [locks EXCEPT !["outputs"] = RwLock_read(@, "guest")]
    /\ Goto("guest", "stream_write")

\* set / add: .stream.write() and the mutation of the stream.
OutputWrite_write ==
    /\ At("guest", "stream_write")
    /\ RwLock_can_write(locks["stream"])
    /\ locks' = [locks EXCEPT !["stream"] = RwLock_write(@, "guest")]
    /\ Goto("guest", "outputs_return")

\* set / add returns: the guards are dropped.
OutputWrite_return ==
    /\ At("guest", "outputs_return")
    /\ locks' = [locks EXCEPT !["stream"] = RwLock_unlock_write(@),
                              !["outputs"] = RwLock_unlock_read(@, "guest")]
    /\ Returns("guest")

\* The calls of the host on the inputs: the writers of the registry
\* (Inputs::new_value_input / new_list_input -> add, the drop of an input ->
\* remove, bind -> change_data_stream) and the ref's write to the stream
\* (ListInputRef::add, ValueInputRef::set).
HostBegins(call) ==
    /\ At("host", "idle")
    /\ tasks["host"].calls < MaxLockCalls
    /\ tasks' = [tasks EXCEPT !["host"] =
                    [pc |-> IF call = "ref_add" THEN "ref_get" ELSE "write",
                     call |-> call, calls |-> @.calls + 1]]
    /\ UNCHANGED locks

\* add / remove / change_data_stream: self.0.write() - taken at once when the
\* lock is free, else the writer waits.
Registry_write ==
    /\ At("host", "write")
    /\ IF RwLock_can_write(locks["inputs"])
       THEN /\ locks' = [locks EXCEPT !["inputs"] = RwLock_write(@, "host")]
            /\ Goto("host", "write_return")
       ELSE /\ locks' = [locks EXCEPT !["inputs"] = RwLock_wait(@, "host")]
            /\ Goto("host", "write_wait")

\* The waiting writer is let in when the last guard is dropped.
Registry_write_resumes ==
    /\ At("host", "write_wait")
    /\ RwLock_can_write(locks["inputs"])
    /\ locks' = [locks EXCEPT !["inputs"] = RwLock_write(@, "host")]
    /\ Goto("host", "write_return")

\* add / remove / change_data_stream return: the write guard is dropped.
Registry_write_return ==
    /\ At("host", "write_return")
    /\ locks' = [locks EXCEPT !["inputs"] = RwLock_unlock_write(@)]
    /\ Returns("host")

\* ListInputRef::add: self.storage.get(self.id)? - the guard is a temporary
\* of the call chain
InputRef_get ==
    /\ At("host", "ref_get")
    /\ RwLock_can_read(locks["inputs"])
    /\ locks' = [locks EXCEPT !["inputs"] = RwLock_read(@, "host")]
    /\ Goto("host", "ref_write")

\* ListInputRef::add: .stream.write() and the add to the stream
InputRef_write ==
    /\ At("host", "ref_write")
    /\ RwLock_can_write(locks["stream"])
    /\ locks' = [locks EXCEPT !["stream"] = RwLock_write(@, "host")]
    /\ Goto("host", "ref_return")

\* ListInputRef::add returns: the temporaries are dropped.
InputRef_return ==
    /\ At("host", "ref_return")
    /\ locks' = [locks EXCEPT !["stream"] = RwLock_unlock_write(@),
                              !["inputs"] = RwLock_unlock_read(@, "host")]
    /\ Returns("host")

\* A step of a call that is under way.
LockStep ==
    \/ GetChangeStream_get \/ GetChangeStream_changes
    \/ GetChangeStream_subscribe \/ GetChangeStream_return
    \/ OutputWrite_get \/ OutputWrite_get_again
    \/ OutputWrite_write \/ OutputWrite_return
    \/ Registry_write \/ Registry_write_resumes \/ Registry_write_return
    \/ InputRef_get \/ InputRef_write \/ InputRef_return

NextLock ==
    /\ \/ \E call \in {"get_change_stream", "set", "add"} : GuestBegins(call)
       \/ \E call \in {"add", "remove", "bind", "ref_add"} : HostBegins(call)
       \/ LockStep
    /\ UNCHANGED <<regVars, listVars, treeVars, runVars, dataVars, resultVars, snapVars, requestVars>>

\* ============================ the snapshot stream of a ref (SpecSnapshot)
\* ListOutputRef::values_stream on the ListStream ls: where the call stands
\* ("none", "value" after self.value(), "stream" once it has returned), the
\* receiver's position, whether the stream has ended, and the items the
\* stream yields.
InitSnapVars ==
    vstream = [pc |-> "none", pos |-> 0, ended |-> FALSE, items |-> <<>>]

\* values_stream, once(self.value()?): the registry and the stream are
\* read-locked for the snapshot and let go.
ValuesStream_value ==
    /\ vstream.pc = "none"
    /\ vstream' = [vstream EXCEPT !.pc = "value", !.items = <<Snapshot(ls)>>]
    /\ UNCHANGED <<ls, lrx, lhist, lret, lreq>>

\* values_stream, .chain(self.updates_stream()?...): the locks are taken
\* again for the subscribe.
ValuesStream_updates ==
    /\ vstream.pc = "value"
    /\ vstream' = [vstream EXCEPT !.pc = "stream", !.pos = ListStream_subscribe(ls)]
    /\ UNCHANGED <<ls, lrx, lhist, lret, lreq>>

\* The consumer polls the stream: for an update, map_while(|_|
\* self.value().ok()) yields the snapshot of now; Lagged ends the stream.
ValuesStream_next ==
    /\ vstream.pc = "stream" /\ ~vstream.ended
    /\ LET n == RxNext(ls.updates, vstream.pos, TRUE) IN
       /\ n.res # "Empty"
       /\ vstream' = IF n.res = "Item"
                     THEN [vstream EXCEPT !.pos = n.pos, !.items = Append(@, Snapshot(ls))]
                     ELSE [vstream EXCEPT !.pos = n.pos, !.ended = TRUE]
    /\ UNCHANGED <<ls, lrx, lhist, lret, lreq>>

\* The producer writes to the list while the consumer makes the stream and
\* polls it.
NextSnapshot ==
    /\ \/ (\E val \in ValuesOf("string") : LAdd(val)) /\ UNCHANGED <<lreq, vstream>>
       \/ LPop /\ UNCHANGED <<lreq, vstream>>
       \/ LClear /\ UNCHANGED <<lreq, vstream>>
       \/ ValuesStream_value
       \/ ValuesStream_updates
       \/ ValuesStream_next
    /\ UNCHANGED <<regVars, treeVars, runVars, dataVars, resultVars, lockVars, requestVars>>

\* ================================ the request streams' storage (SpecHandles)
\* OutputRequestStreams: list_request_streams and tree_request_streams, each
\* a BTreeMap from id to the stream; a stream is told by its kind and by the
\* number of the call that made it.
InitRequestVars ==
    /\ request_streams = [list |-> [k \in {} |-> [of |-> "", n |-> 0]],
                          tree |-> [k \in {} |-> [of |-> "", n |-> 0]],
                          made |-> 0]
    /\ rsret = [op |-> "new", id |-> -1, ok |-> TRUE]

\* OutputRequestStreamStorage::add_stream: the id is the last key + 1
OutputRequestStreamStorage_add_stream(storage, stream) ==
    LET next_id == NextIndex([state |-> storage])
    IN [id |-> next_id,
        storage |-> [k \in DOMAIN storage \cup {next_id} |->
                        IF k = next_id THEN stream ELSE storage[k]]]

\* OutputRequestStreamStorage::remove
OutputRequestStreamStorage_remove(storage, id) ==
    [found |-> id \in DOMAIN storage,
     storage |-> [k \in DOMAIN storage \ {id} |-> storage[k]]]

\* HostListOutput::get_request_stream
ListGetRequestStream ==
    /\ request_streams.made < MaxRequestCalls
    /\ LET r == OutputRequestStreamStorage_add_stream(
                    request_streams.list, [of |-> "list", n |-> request_streams.made + 1])
       IN /\ request_streams' = [request_streams EXCEPT !.list = r.storage, !.made = @ + 1]
          /\ rsret' = [op |-> "list_get_request_stream", id |-> r.id, ok |-> TRUE]

\* HostTreeOutput::get_request_stream
TreeGetRequestStream ==
    /\ request_streams.made < MaxRequestCalls
    /\ LET r == OutputRequestStreamStorage_add_stream(
                    request_streams.tree, [of |-> "tree", n |-> request_streams.made + 1])
       IN /\ request_streams' = [request_streams EXCEPT !.tree = r.storage, !.made = @ + 1]
          /\ rsret' = [op |-> "tree_get_request_stream", id |-> r.id, ok |-> TRUE]

\* HostListOutputRequestStream::poll_request: get_mut(id), an error for an id
\* that is not there
ListPollRequest(id) ==
    /\ rsret' = [op |-> "list_poll_request", id |-> id,
                 ok |-> id \in DOMAIN request_streams.list]
    /\ UNCHANGED request_streams

\* HostTreeOutputRequestStream::poll_request
TreePollRequest(id) ==
    /\ rsret' = [op |-> "tree_poll_request", id |-> id,
                 ok |-> id \in DOMAIN request_streams.tree]
    /\ UNCHANGED request_streams

\* HostListOutputRequestStream::drop
ListRequestStreamDrop(id) ==
    /\ LET r == OutputRequestStreamStorage_remove(request_streams.list, id)
       IN /\ request_streams' = [request_streams EXCEPT !.list = r.storage]
          /\ rsret' = [op |-> "list_request_stream_drop", id |-> id, ok |-> r.found]

\* HostTreeOutputRequestStream::drop: the stream is removed from
\* list_request_streams.
TreeRequestStreamDrop(id) ==
    /\ LET r == OutputRequestStreamStorage_remove(request_streams.list, id)
       IN /\ request_streams' = [request_streams EXCEPT !.list = r.storage]
          /\ rsret' = [op |-> "tree_request_stream_drop", id |-> id, ok |-> r.found]

\* The guest takes request streams of its outputs, polls and drops them;
\* a handle it drops is one it was given.
NextHandles ==
    /\ \/ ListGetRequestStream
       \/ TreeGetRequestStream
       \/ \E id \in 0..(MaxRequestCalls - 1) : ListPollRequest(id)
       \/ \E id \in 0..(MaxRequestCalls - 1) : TreePollRequest(id)
       \/ \E id \in DOMAIN request_streams.list : ListRequestStreamDrop(id)
       \/ \E id \in DOMAIN request_streams.tree : TreeRequestStreamDrop(id)
    /\ UNCHANGED <<regVars, listVars, treeVars, runVars, dataVars, resultVars, lockVars,
                   snapVars>>

\* ========================================================== specifications
Init ==
    /\ InitRegVars /\ InitListVars /\ InitTreeVars /\ InitRunVars /\ InitDataVars
    /\ InitResultVars /\ InitLockVars /\ InitSnapVars /\ InitRequestVars

\* Any type of the bounded set with any value well formed against it.
InitData ==
    /\ InitRegVars /\ InitListVars /\ InitTreeVars /\ InitRunVars /\ InitResultVars
    /\ InitLockVars /\ InitSnapVars /\ InitRequestVars
    /\ dtype \in Types
    /\ dvalue \in ValuesOfType(dtype)
    /\ dout = NoOut

SpecData == InitData /\ [][NextData]_vars

\* Any program of the bounded set, before its run is asked for.
InitRun ==
    /\ InitRegVars /\ InitListVars /\ InitTreeVars /\ InitDataVars /\ InitResultVars
    /\ InitLockVars /\ InitSnapVars /\ InitRequestVars
    /\ program \in Programs
    /\ builder = NoBuilder
    /\ run = NoRun

\* A run is built, its arguments configured, and started.
SpecStart == InitRun /\ [][NextStart]_vars

\* Page requests and the request streams of the list's producer.
SpecRequests == Init /\ [][NextRequests]_vars

\* What a cursor returns of the events of its stream.
SpecProject == Init /\ [][NextProject]_vars

\* A cursor when its stream is destroyed.
SpecDestroy == Init /\ [][NextDestroy]_vars

\* A cursor of an input across the binds of the input.
SpecCursor == Init /\ [][NextCursor]_vars

\* The registries of a run while the guest runs and after it has stopped.
SpecOutlive == Init /\ [][NextOutlive]_vars

\* The calls of the guest and of the host on the registries, lock by lock.
SpecLock == Init /\ [][NextLock]_vars

\* The same, where a call that can go on does go on.
SpecLockFair == SpecLock /\ WF_lockVars(LockStep)

\* A snapshot stream made and polled while the list is written.
SpecSnapshot == Init /\ [][NextSnapshot]_vars

\* The request streams taken, polled and dropped.
SpecHandles == Init /\ [][NextHandles]_vars

\* An input bound to one output and then to another.
SpecRebind == Init /\ [][NextRebind]_vars

\* A started run: its task, its handle and the handle's clones.
SpecResult == Init /\ [][NextResult]_vars

\* The runtime polls a task that was woken, and the spawned task, once the
\* future of run is done, runs to its end.
SpecResultFair ==
    /\ SpecResult
    /\ \A h \in 1..MaxHandles : WF_resultVars(GetResultResumes(h))
    /\ WF_resultVars(TaskEnds)

SpecRun == InitRun /\ [][NextRun]_vars

Spec == Init /\ [][NextReg]_vars

SpecStorage == Init /\ [][NextStorage]_vars

SpecList == Init /\ [][NextList]_vars

SpecTree == Init /\ [][NextTree]_vars

\* ================================================================== claims
\* ---- ListStream (SpecList)
OnlyAdds == \A k \in 1..Len(lhist) : lhist[k].op = "add"

\* What the subscriber has received followed by what its receiver still holds.
LReceived == lrx.got \o SubSeq(ls.updates, lrx.pos, Len(ls.updates))

\* C8: after N add(v_i) calls on a fresh ListStream the snapshot is
\* [v_1, ..., v_N], and a subscriber that subscribed before the adds receives
\* exactly Add(v_1), ..., Add(v_N) in that order when N is at most the ring
\* capacity: its stream has not ended, nothing it is owed was overwritten, and
\* what it received and will receive is that sequence.
C8_AddsSnapshotAndEvents ==
    OnlyAdds =>
        /\ Snapshot(ls) = [k \in 1..Len(lhist) |-> lhist[k].v]
        /\ (lrx.subscribed /\ lrx.at = 0 /\ Len(lhist) <= RingCap) =>
              /\ ~lrx.ended
              /\ ~RxLagged(ls.updates, lrx.pos)
              /\ LReceived = [k \in 1..Len(lhist) |-> Event("Add", lhist[k].v)]

\* Two different values added after the subscription, both received.
C8_Witness ==
    /\ OnlyAdds
    /\ Len(lhist) = 2
    /\ lhist[1].v # lhist[2].v
    /\ lrx.subscribed /\ lrx.at = 0
    /\ Len(lrx.got) = 2

\* ---- TreeStream (SpecTree)
SeqIds(seq) == {seq[k].id : k \in 1..Len(seq)}

\* A snapshot that is a forest: it was produced, no id occurs twice in it and
\* every node hangs under the root or under a node of the snapshot.
ValidForest(snap) ==
    /\ snap.st = "ok"
    /\ \A j, k \in 1..Len(snap.seq) : snap.seq[j].id = snap.seq[k].id => j = k
    /\ \A k \in 1..Len(snap.seq) :
          snap.seq[k].parent = NoParent \/ snap.seq[k].parent \in SeqIds(snap.seq)

\* C9: after any sequence of add, remove and clear on a TreeStream, snapshot()
\* completes and returns a valid forest (no id twice, every non-root node's
\* parent present), and every child id recorded under a parent or under the
\* root refers to a node that still exists.
C9_SnapshotIsValidForest ==
    /\ ValidForest(TreeStream_snapshot(ts))
    /\ \A k \in DOMAIN ts.edges : \A j \in 1..Len(ts.edges[k]) :
          ts.edges[k][j] \in DOMAIN ts.nodes

\* The ids of r and its descendants in a snapshot.
RECURSIVE Below(_, _, _)
Below(seq, ids, n) ==
    IF n = 0 THEN ids
    ELSE Below(seq, ids \cup {seq[k].id : k \in {j \in 1..Len(seq) : seq[j].parent \in ids}},
               n - 1)

\* A snapshot without r's subtree.
Without(seq, r) ==
    LET gone == Below(seq, {r}, Len(seq))
        Keep(e) == e.id \notin gone
    IN SelectSeq(seq, Keep)

\* C10: remove(r) of an existing node r of a valid forest succeeds, and the
\* snapshot taken afterwards is the snapshot from before without r and its
\* descendants: the nodes outside r's subtree keep their parent and their order.
C10_RemoveDropsSubtree ==
    (tret.op = "remove" /\ tret.id \in tret.had /\ ValidForest(tret.before)) =>
        /\ tret.ok
        /\ TreeStream_snapshot(ts).st = "ok"
        /\ TreeStream_snapshot(ts).seq = Without(tret.before.seq, tret.id)

\* ---- the registries (SpecStorage)
\* A step that is a call of bind (change_data_stream).
BindStep == nbinds' = nbinds + 1

DeclaredTypesEqual(i, o) ==
    inputs.state[i].metadata.data_type = outputs.state[o].metadata.data_type

\* C4: bind succeeds if and only if the declared type of the input equals the
\* declared type of the output; when they differ the call fails, the input's
\* registry entry (stream and metadata) is unchanged and no change event is
\* sent.
C4_BindIffTypesEqual ==
    [][BindStep =>
          /\ ret'.ok <=> DeclaredTypesEqual(ret'.id, ret'.out)
          /\ ~DeclaredTypesEqual(ret'.id, ret'.out) =>
                /\ inputs'.state = inputs.state
                /\ inputs'.changes = inputs.changes]_vars

\* C5: bind changes only the stream reference of the bound input's entry: the
\* entry's metadata (id, name, description, declared type, stream kind) is the
\* same before and after, the inputs registry has the same entries, each other
\* one unchanged, and the outputs registry's entries are unchanged.
C5_BindChangesOnlyStream ==
    [][BindStep =>
          /\ outputs'.state = outputs.state
          /\ DOMAIN inputs'.state = DOMAIN inputs.state
          /\ \A j \in DOMAIN inputs.state :
                /\ inputs'.state[j].metadata = inputs.state[j].metadata
                /\ j # ret'.id => inputs'.state[j] = inputs.state[j]]_vars

\* A bind that replaced the input's stream, with another input in the registry.
C5_Witness ==
    /\ ret.op = "bind"
    /\ inputs.state[ret.id].stream # ret.aux
    /\ inputs.state[ret.id].stream = outputs.state[ret.out].stream
    /\ Cardinality(DOMAIN inputs.state) = 2

C7_IdsNeverReused ==
    ret.op = "add" => ret.id > ret.aux

\* ---- binding and cursors (Spec)
\* The cursors taken from input i's entry after its last bind.
TakenAfterBind(i) ==
    {k \in DOMAIN cursors : cursors[k].input_id = i /\ cursors[k].serial >= bound[i].serial}

\* The cursors taken from input i's entry before its last bind.
TakenBeforeBind(i) ==
    {k \in DOMAIN cursors : cursors[k].input_id = i /\ cursors[k].serial < bound[i].serial}

BoundStream(i) == outputs.state[bound[i].out].stream

\* What the receiver of cursor k has yielded followed by what it can still
\* yield: the events from its position on that the ring still holds.
Delivered(k) ==
    LET log == streams[cursors[k].chan].updates
    IN cursors[k].raw \o SubSeq(log, Max(cursors[k].pos, RxOldest(log)), Len(log))

\* Every event sent on the cursor's stream since the cursor was taken.
SentSince(k) ==
    LET log == streams[cursors[k].chan].updates
    IN SubSeq(log, cursors[k].at, Len(log))

NeverLagged(k) ==
    ~cursors[k].lagged /\ ~RxLagged(streams[cursors[k].chan].updates, cursors[k].pos)

\* C1 (as amended): once input I is bound to output O, I's entry holds O's
\* stream, so I's snapshot is O's, and a receiver taken from I's entry after
\* the bind listens to O's stream: every later mutation of O's stream reaches
\* it as the same event, in the same order, as long as the receiver does not
\* fall more than the ring capacity behind.
C1_BoundInputFollowsOutput ==
    \A i \in DOMAIN bound :
        /\ inputs.state[i].stream = BoundStream(i)
        /\ Snapshot(streams[inputs.state[i].stream]) = Snapshot(streams[BoundStream(i)])
        /\ \A k \in TakenAfterBind(i) :
              /\ cursors[k].chan = BoundStream(i)
              /\ NeverLagged(k) => Delivered(k) = SentSince(k)

\* C1 as stated: the same, for every receiver, however far behind.
C1_EveryMutationDelivered ==
    \A i \in DOMAIN bound :
        /\ inputs.state[i].stream = BoundStream(i)
        /\ Snapshot(streams[inputs.state[i].stream]) = Snapshot(streams[BoundStream(i)])
        /\ \A k \in TakenAfterBind(i) :
              /\ cursors[k].chan = BoundStream(i)
              /\ Delivered(k) = SentSince(k)

\* A cursor taken from a bound input after the bind has been handed two events
\* written to the output.
C1_Witness ==
    \E i \in DOMAIN bound : \E k \in TakenAfterBind(i) :
        /\ Len(cursors[k].raw) = 2
        /\ Snapshot(streams[BoundStream(i)]) # <<>>

\* C2: a cursor created on input I before I is rebound returns, from its next
\* poll_change_blocking after the registry sent DataStreamChanged(I.id), one
\* synthetic change carrying the encoded snapshot of the stream I holds now
\* (Replace of the encoded elements for a list, Replace([]) when it is empty).
C2_NextPollIsReplace ==
    (/\ ret.op = "poll_change_blocking"
     /\ ret.pend
     /\ ret.id \in DOMAIN bound
     /\ ret.aux \in TakenBeforeBind(ret.id)) =>
        /\ ret.val.kind \in {"Replace", "Value"}
        /\ ret.val = ReplaceFromSnapshot(cursors[ret.aux].kind,
                                         streams[inputs.state[ret.id].stream],
                                         inputs.state[ret.id].metadata.data_type)

\* C3: after a cursor taken before a bind has returned the synthetic Replace,
\* it tracks the stream the input holds now: what its later polls return are
\* the changes written to that stream since, in order.
C3_TracksNewStream ==
    \A k \in DOMAIN cursors :
        LET c == cursors[k]
        IN (/\ c.markChan # 0
            /\ c.input_id \in DOMAIN bound
            /\ k \in TakenBeforeBind(c.input_id)
            /\ inputs.state[c.input_id].stream = c.markChan) =>
               \A j \in (c.markIdx + 1)..Len(c.got) :
                   LET n == c.mark + (j - c.markIdx)
                       log == streams[c.markChan].updates
                   IN /\ n <= Len(log)
                      /\ c.got[j] = Project(c.kind, c.data_type, log[n]).val

\* ------------------------------------------------------------ TreeStream calls
\* The step is a call of TreeStream::add.
TreeAddStep == thist' = thist + 1 /\ tret'.op = "add"

\* Some id occurs twice in the sequence.
Repeats(ids) == \E j, k \in 1..Len(ids) : j # k /\ ids[j] = ids[k]

\* C11: an add call in which a child id is already a node of the tree, or
\* occurs twice among the supplied children, is rejected with an error and
\* leaves the node map, the edge map and the broadcast unchanged.
C11_AddRejectsDuplicateIds ==
    [][(/\ TreeAddStep
        /\ \/ \E k \in 1..Len(tret'.children) : tret'.children[k] \in DOMAIN ts.nodes
           \/ Repeats(tret'.children))
       => (~tret'.ok /\ ts' = ts)]_vars

\* C12: an add call with parent = Some(p) where p is not a node fails with an
\* error, inserts no node and no edge, and broadcasts no event.
C12_AddUnderMissingParentFails ==
    [][(TreeAddStep /\ tret'.id # NoParent /\ tret'.id \notin DOMAIN ts.nodes)
       => (/\ ~tret'.ok
           /\ ts'.nodes = ts.nodes
           /\ ts'.edges = ts.edges
           /\ ts'.updates = ts.updates)]_vars

\* An add under a parent that is not a node was refused while the tree held
\* other nodes - and the tree still holds exactly those.
C12_Witness ==
    /\ tret.op = "add" /\ ~tret.ok
    /\ tret.id \notin DOMAIN ts.nodes
    /\ tret.had # {} /\ DOMAIN ts.nodes = tret.had

\* The step is a call of TreeStream::request_children.
TreeRequestStep == thist' = thist + 1 /\ tret'.op = "request_children"

\* C15: request_children(id) returns false and emits nothing on the
\* load-children back-channel when id is not a node; when id is a node it
\* returns true and emits exactly id; nodes and edges are unchanged either way.
C15_RequestChildren ==
    [][TreeRequestStep
       => (/\ ts'.nodes = ts.nodes /\ ts'.edges = ts.edges
           /\ IF tret'.id \in DOMAIN ts.nodes
              THEN /\ tret'.res = "true"
                   /\ ts.load_receivers > 0
                        => ts'.load_children = Append(ts.load_children, tret'.id)
              ELSE /\ tret'.res = "false"
                   /\ ts'.load_children = ts.load_children)]_vars

\* C15, with a receiver on the load-children back-channel: the same.
C15_RequestChildrenWithReceiver ==
    [][(TreeRequestStep /\ ts.load_receivers > 0)
       => (/\ ts'.nodes = ts.nodes /\ ts'.edges = ts.edges
           /\ IF tret'.id \in DOMAIN ts.nodes
              THEN /\ tret'.res = "true"
                   /\ ts'.load_children = Append(ts.load_children, tret'.id)
              ELSE /\ tret'.res = "false"
                   /\ ts'.load_children = ts.load_children)]_vars

\* ------------------------------------------------------------ ListStream calls
\* The step is a call of ListStream::pop.
ListPopStep == Len(lhist') = Len(lhist) + 1 /\ lret'.op = "pop"

\* C13: pop() on an empty ListStream fails, leaves the list and the
\* has-more-pages flag unchanged and broadcasts nothing; pop() on a non-empty
\* list removes exactly the last element and broadcasts Pop with that element.
C13_Pop ==
    [][ListPopStep
       => IF ls.value = <<>>
          THEN ~lret'.ok /\ ls' = ls
          ELSE /\ lret'.ok
               /\ ls'.value = SubSeq(ls.value, 1, Len(ls.value) - 1)
               /\ ls'.updates = Append(ls.updates, Event("Pop", ls.value[Len(ls.value)]))
               /\ ls'.has_more_rows = ls.has_more_rows]_vars

\* A pop took the only element and broadcast it, and the next pop found the
\* list empty and failed without broadcasting.
C13_Witness ==
    /\ Len(lhist) = 3
    /\ lhist[1].op = "add" /\ lhist[2].op = "pop" /\ lhist[3].op = "pop"
    /\ lret.op = "pop" /\ ~lret.ok
    /\ ls.updates = <<Event("Add", lhist[1].v), Event("Pop", lhist[1].v)>>

\* The flag the last set_has_more_rows call set (false on a fresh stream).
RECURSIVE LastHasMore(_)
LastHasMore(hist) ==
    IF hist = <<>> THEN FALSE
    ELSE IF hist[Len(hist)].op = "set_has_more_rows"
    THEN hist[Len(hist)].v = BoolValue(TRUE)
    ELSE LastHasMore(SubSeq(hist, 1, Len(hist) - 1))

\* The step is a call of ListStream::request_page.
ListRequestStep == Len(lhist') = Len(lhist) + 1 /\ lret'.op = "request_page"

\* C14: request_page(limit) returns false and emits nothing on the
\* page-request back-channel while the has-more-pages flag is false (a fresh
\* stream included); while it is true it returns true and emits exactly
\* limit; the flag is what the last set_has_more_rows call set.
C14_RequestPage ==
    [][ListRequestStep
       => IF LastHasMore(lhist)
          THEN /\ lret'.res = "true"
               /\ ls.page_receivers > 0
                    => ls'.page_load = Append(ls.page_load, lret'.limit)
          ELSE /\ lret'.res = "false"
               /\ ls'.page_load = ls.page_load]_vars

\* C14, with a receiver on the page-request back-channel: the same.
C14_RequestPageWithReceiver ==
    [][(ListRequestStep /\ ls.page_receivers > 0)
       => IF LastHasMore(lhist)
          THEN /\ lret'.res = "true"
               /\ ls'.page_load = Append(ls.page_load, lret'.limit)
          ELSE /\ lret'.res = "false"
               /\ ls'.page_load = ls.page_load]_vars

\* ------------------------------------------------------------ registry removal
\* The step is a call of the named registry's remove.
RemoveStep(name) == ret'.op = "remove" /\ ret'.reg = name

\* remove(id) on the registry, for an entry it holds, sends Destroy on the
\* entry's stream and Removed(id) to the registry's receivers.
TearsDown(name, reg, regAfter) ==
    (RemoveStep(name) /\ ret'.id \in DOMAIN reg.state)
    => LET sid == reg.state[ret'.id].stream IN
       /\ ret'.aux = 1
       /\ streams'[sid].updates = Append(streams[sid].updates, Event("Destroy", NoValue))
       /\ reg.receivers > 0 => regAfter.changes = Append(reg.changes, Removed(ret'.id))

\* C16: remove(id) of an existing entry tears the stream down: the entry's
\* stream broadcasts a terminal Destroy to its subscribers and Removed(id) is
\* emitted - also when the stream is shared with another entry through binding.
C16_RemoveTearsStreamDown ==
    [][TearsDown("inputs", inputs, inputs') /\ TearsDown("outputs", outputs, outputs')]_vars

\* C17: remove(id) of an id the registry does not hold returns false (not an
\* error), leaves the registry unchanged and emits no registry change event.
C17_RemoveAbsent ==
    [][/\ (RemoveStep("inputs") /\ ret'.id \notin DOMAIN inputs.state)
           => (ret'.aux = 0 /\ inputs' = inputs /\ streams' = streams)
       /\ (RemoveStep("outputs") /\ ret'.id \notin DOMAIN outputs.state)
           => (ret'.aux = 0 /\ outputs' = outputs /\ streams' = streams)]_vars

\* The inputs registry, holding an entry and watched by a receiver, was asked
\* to remove an id it does not hold, and answered false.
C17_Witness ==
    /\ ret.op = "remove" /\ ret.reg = "inputs" /\ ret.aux = 0
    /\ DOMAIN inputs.state # {} /\ ret.id \notin DOMAIN inputs.state
    /\ inputs.receivers > 0

\* C18: no registry call returns an error because the registry's broadcast
\* has no receiver: add, remove and change_data_stream succeed with none.
C18_NoErrorWithoutSubscribers ==
    LET reg == IF ret.reg = "outputs" THEN outputs ELSE inputs IN
    reg.receivers = 0
    => /\ ret.op = "add" => ret.ok
       /\ ret.op = "remove" => ret.aux \in {0, 1}
       /\ ret.op = "bind" => ret.ok

\* ------------------------------------------------------------------- lagging
\* C19: a guest change-stream cursor that falls behind its stream by more than
\* the ring's capacity observes that events were lost - the poll on which the
\* receiver reports Lagged returns a gap signal (an error) instead of the
\* next change - and every stream event it is handed was published.
C19_LagIsObserved ==
    [][\A k \in DOMAIN cursors :
          /\ (~cursors[k].lagged /\ cursors'[k].lagged) => ret'.val.kind = "Err"
          /\ \A j \in 1..Len(cursors'[k].raw) :
                \E n \in 1..Len(streams'[cursors'[k].chan].updates) :
                   streams'[cursors'[k].chan].updates[n] = cursors'[k].raw[j]]_vars

\* --------------------------------------------------------------- run builder
\* Two arguments of the schema have the same name.
HasDuplicateNames(arguments) ==
    \E j, k \in 1..Len(arguments) : j # k /\ arguments[j].name = arguments[k].name

\* C20: constructing a run builder fails whenever the guest's schema holds
\* two arguments of the same name, and succeeds - the module being loadable -
\* whenever the names are pairwise distinct.
C20_DuplicateNamesRejected ==
    builder.st # "none"
    => /\ HasDuplicateNames(program.arguments) => builder.st = "err"
       /\ (~HasDuplicateNames(program.arguments) /\ program.loadable)
            => (/\ builder.st = "ok" /\ builder.schema = program.arguments
                /\ DOMAIN builder.inputs = {})

\* The builder was refused for a loadable program whose first and third
\* arguments share a name, with another name between them and with
\* different data types.
C20_Witness ==
    /\ builder.st = "err" /\ program.loadable
    /\ Len(program.arguments) = 3
    /\ program.arguments[1].name = program.arguments[3].name
    /\ program.arguments[1].name # program.arguments[2].name
    /\ program.arguments[1].data_type # program.arguments[3].data_type
    /\ builder.name = program.arguments[1].name

\* -------------------------------------------------------- types and the codec
\* C23: for every type t of the algebra, parsing the printed form succeeds
\* and gives a type that prints as t does.
C23_ParsePrintRoundTrip ==
    dout.op = "parse" => (dout.st = "ok" /\ TypeString(dout.type) = TypeString(dtype))

\* C24: for every type t and every value v well formed against t,
\* decode(t, encode(t, v)) = v - a struct's fields being encoded and decoded
\* each with its own type, whatever the alphabetical order of their names.
C24_EncodeDecodeRoundTrip ==
    dout.op = "decode" => (dout.st = "ok" /\ dout.value = dvalue)

\* --------------------------------------------------------------- starting a run
\* The step is the call of start.
StartStep == builder.st = "ok" /\ builder'.st = "started"

IsListType(data_type) == data_type = "list<string>"

\* The input is one start registered for the argument: a new entry with the
\* argument's name, description and type, holding an empty list stream for
\* a list type and a value stream without a value otherwise.
IsDefaultFor(input, arg_spec) ==
    /\ input.id \notin DOMAIN inputs.state
    /\ input.id \in DOMAIN inputs'.state
    /\ LET e == inputs'.state[input.id] IN
       /\ e.metadata.name = arg_spec.name
       /\ e.metadata.description = arg_spec.description
       /\ e.metadata.data_type = arg_spec.data_type
       /\ e.stream \notin DOMAIN streams
       /\ IF IsListType(arg_spec.data_type)
          THEN input.kind = "list-input" /\ streams'[e.stream] = ListStream_new
          ELSE input.kind = "value-input" /\ streams'[e.stream] = ValueStream_new(<<>>)

\* C21: start calls the guest's run with exactly one input per schema
\* argument, in schema order: the one configured with bind_argument or
\* set_value_argument when there is one, otherwise a newly registered default
\* - a list input for a list type, a value input without a value otherwise -
\* registered under the argument's name, description and type.
C21_StartArguments ==
    [][StartStep
       => /\ run'.st = "ok"
          /\ Len(run'.arguments) = Len(builder.schema)
          /\ \A k \in 1..Len(builder.schema) :
                IF builder.schema[k].name \in DOMAIN builder.inputs
                THEN run'.arguments[k] = builder.inputs[builder.schema[k].name]
                ELSE IsDefaultFor(run'.arguments[k], builder.schema[k])
          /\ \A j, k \in 1..Len(builder.schema) :
                j # k => run'.arguments[j].id # run'.arguments[k].id]_vars

\* ------------------------------------------------------------- the run handle
\* What the handle's last call of get_result returned is the result of the
\* guest's run, which has returned.
ReturnedTheResult(h) ==
    handles[h].got # <<>>
        => /\ guest.st = "returned"
           /\ handles[h].got = <<ResultOf(guest.outcome)>>
           /\ handles[h].got[1].ok = (guest.outcome.k = "success")
           /\ guest.outcome.k = "success" => handles[h].got[1].v = guest.outcome.v

\* The handle's call of get_result is suspended in changed() and run has
\* returned.
SuspendedAfterReturn(h) ==
    IF h \in 1..Len(handles)
    THEN handles[h].pc = "changed" /\ guest.st = "returned"
    ELSE FALSE

\* The handle's call has returned the result.
HasTheResult(h) ==
    IF h \in 1..Len(handles)
    THEN handles[h].pc = "idle" /\ handles[h].got = <<ResultOf(guest.outcome)>>
    ELSE FALSE

\* C22: get_result on a run handle or any clone of it returns only once the
\* guest's run has returned, and a call suspended in it returns once run
\* has; every call from every clone returns the same result: the guest's
\* success string when run returned success, an error when run returned an
\* error string or the sandbox trapped.
C22_GetResult ==
    /\ [](\A h \in 1..Len(handles) : ReturnedTheResult(h))
    /\ \A h \in 1..MaxHandles : SuspendedAfterReturn(h) ~> HasTheResult(h)

\* Three handles have the same error of a run that returned an error string:
\* one whose call was suspended before run returned, one that called after
\* the task had ended, and a clone made after that.
C22_Witness ==
    /\ Len(handles) = 3
    /\ guest.outcome.k = "error" /\ result_channel.closed
    /\ handles[1].waited /\ handles[1].got # <<>>
    /\ ~handles[2].waited /\ handles[2].got = handles[1].got
    /\ handles[3].got = handles[1].got /\ handles[3].version = result_channel.version

\* ------------------------------------------------- the cursor across a bind
\* The step is a poll_change_blocking of cursor k that returns a change its
\* receiver yielded.
YieldsStreamChange(k) ==
    /\ k \in DOMAIN cursors
    /\ ret'.op = "poll_change_blocking" /\ ret'.aux = k /\ ret'.ok
    /\ cursors'[k].pos # cursors[k].pos

\* C25: for a cursor that follows both the registry's DataStreamChanged of
\* its input and the events of the stream, the synthetic Replace for a bind
\* is returned before any event that was written to the stream the input
\* holds since the bind, however the bind and the writes interleave.
C25_ReplaceBeforeNewEvents ==
    [][\A k \in 1..MaxCursors :
          (/\ YieldsStreamChange(k)
           /\ cursors[k].input_id \in DOMAIN bound
           /\ k \in TakenBeforeBind(cursors[k].input_id)
           /\ cursors[k].chan = inputs.state[cursors[k].input_id].stream
           /\ cursors'[k].pos - 1 > bound[cursors[k].input_id].at)
              => cursors[k].markIdx # 0]_vars

\* C26: a cursor polled only through poll_change also yields the synthetic
\* Replace after its input is rebound: poll_change returns "no change yet"
\* only when neither a stream event nor a DataStreamChanged of the cursor's
\* input is pending, and it never suspends.
C26_PollChangeSeesReplace ==
    (ret.op = "poll_change" /\ ret.val = NoPoll)
        => (~ret.pend /\ CursorStream(cursors[ret.aux]).res \in {"Pending", "Ended"})

\* ------------------------------------------------- the order of mutations
\* The list, the flag and the events that the calls of hist give when each
\* takes effect whole, one after the other, in the order they were made.
RECURSIVE InCallOrder(_)
InCallOrder(hist) ==
    IF hist = <<>> THEN [value |-> <<>>, more |-> FALSE, events |-> <<>>]
    ELSE LET r == InCallOrder(SubSeq(hist, 1, Len(hist) - 1))
             h == hist[Len(hist)]
         IN IF h.op = "add"
            THEN [r EXCEPT !.value = Append(@, h.v), !.events = Append(@, Event("Add", h.v))]
            ELSE IF h.op = "pop" /\ r.value # <<>>
            THEN [r EXCEPT !.value = SubSeq(@, 1, Len(@) - 1),
                           !.events = Append(@, Event("Pop", r.value[Len(r.value)]))]
            ELSE IF h.op = "clear"
            THEN [r EXCEPT !.value = <<>>, !.events = Append(@, Event("Clear", NoValue))]
            ELSE IF h.op = "set_has_more_rows"
            THEN [r EXCEPT !.more = (h.v = BoolValue(TRUE)),
                           !.events = Append(@, Event("HasMorePages", h.v))]
            ELSE r

C28_AcceptedRequestsReturned ==
    \A k \in 1..Len(lreq) : \A n \in 1..Len(ls.page_load) :
        \/ \E j \in 1..Len(lreq[k].got) : lreq[k].got[j] = LoadMore(ls.page_load[n], n)
        \/ n >= lreq[k].pos
        \/ n \in lreq[k].lost

\* --------------------------------------------------- what a cursor returns
\* The step is a poll of cursor k in which its receiver yielded an event.
ReceiverYields(k) ==
    /\ k \in DOMAIN cursors
    /\ ret'.op \in {"poll_change_blocking", "poll_change"} /\ ret'.aux = k
    /\ Len(cursors'[k].raw) > Len(cursors[k].raw)

\* The last event the receiver of cursor k yielded in the step.
Yielded(k) == cursors'[k].raw[Len(cursors'[k].raw)]

\* The record of the guest's list-change that corresponds to a stream event.
ListChangeFor(ev, data_type) ==
    IF ev.op = "Add" THEN PollResult("Append", <<Encode(data_type, ev.v).bytes>>, "")
    ELSE IF ev.op = "Pop" THEN PollResult("Pop", <<>>, "")
    ELSE IF ev.op = "Clear" THEN PollResult("Replace", <<>>, "")
    ELSE PollResult("HasMorePages", <<>>, ev.v.v)

\* C29: every change of a list input's stream is handed to a guest list
\* cursor as the corresponding record: Add(v) as Append(encode(v)), Pop as
\* Pop, Clear as Replace([]), HasMorePages(b) as HasMorePages(b).
C29_ListChangesProjected ==
    [][\A k \in 1..MaxCursors :
          (/\ ReceiverYields(k)
           /\ cursors[k].kind = "List"
           /\ Yielded(k).op \in {"Add", "Pop", "Clear", "HasMorePages"}
           /\ Yielded(k).op = "Add" => Encode(cursors[k].data_type, Yielded(k).v).ok)
              => /\ ret'.val = ListChangeFor(Yielded(k), cursors[k].data_type)
                 /\ ~cursors'[k].dead]_vars

\* C30: when the stream under an input is destroyed a cursor of it ends:
\* Destroy is the end of the stream and is handed on as no record, for value
\* and list cursors alike.
C30_DestroyEndsCursor ==
    [][\A k \in 1..MaxCursors :
          (ReceiverYields(k) /\ Yielded(k).op = "Destroy")
              => /\ ret'.val.kind \in {"Err", "none"}
                 /\ ret'.val.kind = "Err" => ret'.val.msg = "Stream ended unexpectedly"
                 /\ ~cursors'[k].dead]_vars

\* ------------------------------------------------------- TreeStream::remove
\* The step is a call of TreeStream::remove.
TreeRemoveStep == thist' = thist + 1 /\ tret'.op = "remove"

\* The events the step broadcast.
Broadcast == SubSeq(ts'.updates, Len(ts.updates) + 1, Len(ts'.updates))

\* The ids of the nodes the step took out of the node map.
Dropped == DOMAIN ts.nodes \ DOMAIN ts'.nodes

\* The events are Remove events, one for each id of the set and no other.
OneRemoveEach(events, ids) ==
    /\ \A k \in 1..Len(events) : events[k].op = "Remove" /\ Len(events[k].children) = 1
    /\ {events[k].children[1].id : k \in 1..Len(events)} = ids
    /\ Len(events) = Cardinality(ids)

\* No event of a node comes before the event of one of its descendants in
\* the forest seq.
DescendantsFirst(events, seq) ==
    \A j, k \in 1..Len(events) :
        j < k => events[k].children[1].id
                    \notin (Below(seq, {events[j].children[1].id}, Len(seq))
                            \ {events[j].children[1].id})

\* C31: remove(r) broadcasts exactly one Remove event for every node it
\* removes (r and each descendant) and none for any other node, and always in
\* the same order: the descendants of a node before the node itself.
C31_RemoveBroadcastsEachNode ==
    [][TreeRemoveStep
       => (/\ OneRemoveEach(Broadcast, Dropped)
           /\ tret'.before.st = "ok" => DescendantsFirst(Broadcast, tret'.before.seq))]_vars

\* C38: TreeStream::remove is all-or-nothing: a remove(id) that returns an
\* error (id is not a node, or a recorded child no longer exists) leaves the
\* node map and the edge map as they were and broadcasts nothing - so that
\* removing a child and then its parent cannot fail half way.
C38_RemoveAllOrNothing ==
    [][(TreeRemoveStep /\ ~tret'.ok)
       => (/\ ts'.nodes = ts.nodes
           /\ ts'.edges = ts.edges
           /\ ts'.updates = ts.updates)]_vars

\* ---- an input bound again (SpecRebind)
\* The step is a bind of an input that was bound before.
RebindStep == BindStep /\ ret'.id \in DOMAIN bound

\* C32: binding an input that is already bound succeeds and replaces the
\* reference: the input's entry then holds the second output's stream only,
\* the first output's stream and its subscribers are left as they were, and a
\* subscription taken from the input afterwards is one of the second output's
\* stream - it yields that stream's events and none written to the first.
C32_RebindReplaces ==
    /\ [][RebindStep
          => (/\ ret'.ok
              /\ inputs'.state[ret'.id].stream = outputs.state[ret'.out].stream
              /\ streams' = streams
              /\ cursors' = cursors)]_vars
    /\ [](\A i \in DOMAIN bound : \A k \in TakenAfterBind(i) :
              /\ cursors[k].chan = BoundStream(i)
              /\ \A n \in 1..Len(cursors[k].raw) :
                    /\ cursors[k].at + n - 1 <= Len(streams[BoundStream(i)].updates)
                    /\ cursors[k].raw[n] = streams[BoundStream(i)].updates[cursors[k].at + n - 1])

\* The cursors that were taken from input i's entry while it held the stream
\* its last bind replaced.
OnOldStream(i) == {k \in TakenBeforeBind(i) : cursors[k].chan = bound[i].old}

C37_FailedBindChangesNothing ==
    [][BindStep
       => (/\ ~ret'.ok => (inputs'.state = inputs.state /\ inputs'.changes = inputs.changes)
           /\ inputs'.state[ret'.id].stream # inputs.state[ret'.id].stream => ret'.ok)]_vars

\* ---- the registries after the run (SpecOutlive)
\* C34: the registries outlive the guest task: in the step in which run
\* returns or the task is cancelled and from then on, every entry of outputs() and inputs() stays listed,
\* each output with the snapshot it had when the guest stopped - no write of
\* the guest appears any more; what changes is what the host writes to the
\* inputs.
C34_RegistriesOutliveGuest ==
    [][guest'.st # "running"
       => (/\ outputs' = outputs
           /\ \A o \in DOMAIN outputs.state :
                 streams'[outputs.state[o].stream] = streams[outputs.state[o].stream]
           /\ \A i \in DOMAIN inputs.state :
                 /\ i \in DOMAIN inputs'.state
                 /\ inputs'.state[i] = inputs.state[i]
           /\ streams' # streams => ret'.reg = "inputs")]_vars

\* The guest task was cancelled, or has returned and ended, and outputs()
\* still lists an output of the guest with the elements the guest wrote.
C34_Witness ==
    /\ guest.st \in {"returned", "cancelled"}
    /\ result_channel.closed
    /\ \E o \in DOMAIN outputs.state : Snapshot(streams[outputs.state[o].stream]) # <<>>

\* ---- the registry lock (SpecLock)
Registries == {"inputs", "outputs"}

\* Task t holds a guard of the stream's lock.
HoldsStream(t) == locks["stream"].readers[t] > 0 \/ locks["stream"].writer = t

\* C35: a lookup in a registry holds the registry's read lock only to clone
\* the entry's handle: no call holds a registry's read guard while it holds
\* the lock of a stream (to read or to mutate it), and none holds two read
\* guards of a registry.
C35_LookupLocksOnlyToClone ==
    \A t \in Tasks : \A n \in Registries :
        /\ locks[n].readers[t] <= 1
        /\ HoldsStream(t) => locks[n].readers[t] = 0

\* C36: the registry lock cannot deadlock: no task takes the read lock of a
\* registry while it holds a read guard of it, and whatever the host's
\* writers (add, remove, bind) and the guest's calls (get_change_stream, set,
\* add) do in between, with readers kept out while a writer waits, every call
\* that was begun returns.
C36_EveryCallReturns ==
    /\ [](\A t \in Tasks : \A n \in Registries : locks[n].readers[t] <= 1)
    /\ \A t \in Tasks : (tasks[t].pc # "idle") ~> (tasks[t].pc = "idle")

\* ---- the snapshot stream (SpecSnapshot)
\* The stream values_stream returned has nothing more to yield: every update
\* sent so far was consumed, or the stream has ended.
Drained ==
    /\ vstream.pc = "stream"
    /\ vstream.ended \/ vstream.pos > Len(ls.updates)

\* C39: the snapshot stream of a ref never misses a mutation for good:
\* however the writer's calls fall between the steps that make the stream,
\* when the consumer has drained it the last item it received is the
\* stream's snapshot of now.
C39_SnapshotStreamCatchesUp ==
    Drained => vstream.items[Len(vstream.items)] = Snapshot(ls)

\* ---- the request streams' storage (SpecHandles)
\* The step is the drop of the tree request-stream handle k.
TreeDropStep(k) == rsret'.op = "tree_request_stream_drop" /\ rsret'.id = k

\* C40: dropping a request-stream handle removes the stream it denotes and
\* no other: the drop of the tree request-stream handle k removes tree
\* request stream k, which cannot be polled afterwards, and leaves every list
\* request stream, the one with id k too, registered.
C40_DropRemovesItsStream ==
    [][\A k \in DOMAIN request_streams.tree :
          TreeDropStep(k)
             => (/\ rsret'.ok
                 /\ k \notin DOMAIN request_streams'.tree
                 /\ \A j \in DOMAIN request_streams.tree \ {k} :
                       /\ j \in DOMAIN request_streams'.tree
                       /\ request_streams'.tree[j] = request_streams.tree[j]
                 /\ request_streams'.list = request_streams.list)]_vars
====
